---- MODULE Spec2Model ----
(***************************************************************************)
(* A model of byexample's harvester (finder.py), example parser            *)
(* (parser.py), pty interpreter driver (runner.py, modules/shell.py) and   *)
(* helpers (common.py).  Each subsystem has its own specification:         *)
(* SpecHarvest, SpecParse, SpecRun, SpecGeometry, SpecExtract,             *)
(* SpecCollect, SpecErrors, SpecTerminal, SpecShebang, SpecZones,          *)
(* SpecExpected, SpecIndented (zones of documents with indentation),       *)
(* SpecPty (initialize, run and cancel) and SpecBudget (run with expects   *)
(* that return late).  The variables of the other subsystems keep their    *)
(* initial value under each of them.  Strings are sequences of characters. *)
(***************************************************************************)
EXTENDS Integers, Sequences, FiniteSets, TLC

VARIABLES
    \* ---- harvester: ExampleHarvest.get_examples_from_string ----
    all_examples,     \* the list `all_examples` / `examples`
    hpc,              \* position: "collect", "while", "for", "returned", "raised"
    prev,             \* check_example_overlap: the local `prev` (an example)
    idx,              \* check_example_overlap: the loop index `i` (1-based here)
    collision_free,   \* check_example_overlap: the local `collision_free`
    error,            \* the ValueError raised by check_example_overlap, or NoError
    found_order,      \* history: the candidates in the order they were found
    sorted_input,     \* history: the list handed to check_example_overlap
    scans,            \* history: number of iterations of the `while` loop
    cmps,             \* history: number of comparisons done in the current scan
    \* ---- parser: ExampleParser.parse ----
    opt_stack,        \* self.options: the stack of option scopes, top last
    ppc,              \* position in parse: "idle", "pushed", "processed",
                      \* "hooked", "compiled", "returned", "raised"
    ex,               \* the example being parsed, or parsed last
    concerns,         \* the `concerns` argument: "none", "quiet" or "failing"
    perror,           \* the exception parse raised, or "none"
    depth_before,     \* history: depth of the option stack when parse was called
    nparses,          \* history: number of calls of parse so far
    opts_cache,       \* self._opts_cache: the options of the option lists parsed
    strict_runs,      \* history: how many times the strict parse of each option
                      \* list has been executed
    \* ---- runner: ShellInterpreter over PexpectMixin ----
    rpc,              \* position of the runner: "ready" between two calls,
                      \* "done" when a call has returned or raised
    op,               \* the call in progress: "none", "initialize", "run" or "cancel"
    ctx,              \* who called _expect_prompt: "exec", "ctrlz" or "abort"
    opts,             \* the `options` of the call in progress
    source,           \* run: example.source
    lines,            \* _exec_and_wait: the pieces of the source not sent yet
    prompt_re,        \* _expect_prompt: the prompt waited for, "any_PS" or "PS1"
    timeout,          \* _exec_and_wait: the local `timeout`
    begin_elapsed,    \* _exec_and_wait: time.time() - begin, so far
    sh_timeout,       \* ShellInterpreter._expect_prompt: the local `timeout`
    silence_timeout,  \* ShellInterpreter._expect_prompt: `silence_timeout`
    sh_prev,          \* ShellInterpreter._expect_prompt: `prev`
    last_output,      \* self.last_output: the list of chunks
    buffer,           \* pexpect: the text read and not yet matched
    exc,              \* the TimeoutException in flight or caught, or NoExc
    out,              \* _run_impl: `out`, the output of the caught exception
    result,           \* what the last call returned or raised
    trace,            \* history: what the call in progress did to the interpreter;
                      \* an expect that timed out keeps the output of its exception
    run_read,         \* history: the texts read by the expects of the call
    spent,            \* history: the time the calls of _expect_prompt took that
                      \* _exec_and_wait has taken from its timeout, one per call
    \* ---- runner: PexpectMixin._run and the terminal geometry ----
    gpc,              \* position: "unspawned", "idle", "inside" the with block,
                      \* "exiting" it, "left"
    terminal_default_geometry,  \* self._terminal_default_geometry
    screen,           \* the size of self._screen, <<rows, cols>>
    winsize,          \* the window size of the child pty, <<rows, cols>>
    geometry,         \* options['geometry'] of the call in progress
    force,            \* the `force` argument
    need_change,      \* the local `need_change`
    outcome,          \* how the body of the with block ended
    resizes,          \* history: the calls of _change_terminal_geometry since
                      \* the context was entered
    \* ---- finder: ExampleFinder.get_snippet_and_expected ----
    xpc,              \* position: "idle", "indent" (in check_and_remove_indent),
                      \* "stripped" (in check_keep_matching), "matched",
                      \* "returned", "raised"
    via,              \* who is called: "finder" (get_snippet_and_expected),
                      \* "indent" or "recheck" (one of its two steps alone)
    example_str,      \* the local `example_str`
    indent,           \* the local `indent`
    where,            \* the Where object handed in, which is updated in place
    new_match,        \* check_keep_matching: `new_match`
    xerror,           \* the ValueError raised, or NoXError
    groups,           \* what get_snippet_and_expected returned
    given,            \* history: the arguments of check_and_remove_indent
    \* ---- harvester: from_string_get_items_using with get_example ----
    cpc,              \* position: "idle", "loop" (the for statement), "getter"
                      \* (in get_example), "returned", "raised"
    allowed_languages,   \* self.allowed_languages
    parser_by_language,  \* the languages self.parser_by_language has a parser for
    runner_by_language,  \* the languages self.runner_by_language has a runner for
    start_lineno,     \* the local `start_lineno`
    match,            \* the match of the iteration in progress and its `where`
    items,            \* the local `items`
    drop_log,         \* what _log_drop was called with, in order
    seen,             \* history: the matches the loop has gone through, each
    epc,              \* position: "idle", "body" (inside the with blocks),
                      \* "raising", "recovered", "returned", "propagated"
    verbosity,        \* human_exceptions: the argument `verbosity`
    quiet,            \* human_exceptions: the argument `quiet`
    scopes,           \* the enhance_exceptions blocks the body is inside of,
                      \* outermost first, each with its `where` and `owner`
    flying,           \* the exception that is propagating, or NoFlying
    yielded,          \* human_exceptions: the dictionary `o` it yields
    printed,          \* what print was called with, in order
    born,             \* history: the exception as the body raised it
    born_in,          \* history: `scopes` when the body raised it
    tpc,              \* position: "reading" (expects add to last_output) or
                      \* "shown" (_get_output has returned)
    terminal,         \* options['term']
    received,         \* self.last_output: the chunks read and not yet returned
    shown,            \* the text _get_output returned
    fed,              \* history: the chunks the text was made from
    spc,              \* position: "idle", "returned" or "raised"
    shebang,          \* ShebangTemplate: self.template
    tokens,           \* quote_and_substitute: the argument `tokens`
    cmd,              \* the string quote_and_substitute returned
    serror,           \* the exception it raised, or "none"
    zpc,              \* position: "idle", "zones" (the zones are found),
                      \* "examples" (a zone has been searched), "done"
    document,         \* get_examples_from_string: `string`
    zones,            \* the local `zones`: str and where of each, and as
                      \* history the place of its match and of its text
    zone_no,          \* the zone of the loop `for zone in zones`
    examples,         \* the local `examples`: the where of each, and as
                      \* history the place of its match in the zone
    \* ---- parser: ExampleParser.expected_as_regexs ----
    mpc,              \* position: "idle", "compiled" or "matched"
    expected,         \* the argument `expected`
    tags_enabled,     \* the argument `tags_enabled`
    normalize_whitespace,  \* the argument `normalize_whitespace`
    compiled,         \* what expected_as_regexs returned
    got,              \* the texts given to m.match
    matched           \* the texts for which m.match found a match
                      \* with the `where` built for it and what became of it

hvars == <<all_examples, hpc, prev, idx, collision_free, error,
           found_order, sorted_input, scans, cmps>>

pvars == <<opt_stack, ppc, ex, concerns, perror, depth_before, nparses,
           opts_cache, strict_runs>>

rvars == <<rpc, op, ctx, opts, source, lines, prompt_re, timeout, begin_elapsed,
           sh_timeout, silence_timeout, sh_prev, last_output, buffer, exc, out,
           result, trace, run_read, spent>>

gvars == <<gpc, terminal_default_geometry, screen, winsize, geometry, force,
           need_change, outcome, resizes>>

xvars == <<xpc, via, example_str, indent, where, new_match, xerror, groups,
           given>>

cvars == <<cpc, allowed_languages, parser_by_language, runner_by_language,
           start_lineno, match, items, drop_log, seen>>

evars == <<epc, verbosity, quiet, scopes, flying, yielded, printed, born, born_in>>

tvars == <<tpc, terminal, received, shown, fed>>

svars == <<spc, shebang, tokens, cmd, serror>>

zvars == <<zpc, document, zones, zone_no, examples>>

mvars == <<mpc, expected, tags_enabled, normalize_whitespace, compiled, got,
           matched>>

vars == <<hvars, pvars, rvars, gvars, xvars, cvars, evars, tvars, svars,
          zvars, mvars>>

\* what the actions of one subsystem leave unchanged
notH == <<pvars, rvars, gvars, xvars, cvars, evars, tvars, svars, zvars,
          mvars>>
notP == <<hvars, rvars, gvars, xvars, cvars, evars, tvars, svars, zvars,
          mvars>>
notR == <<hvars, pvars, gvars, xvars, cvars, evars, tvars, svars, zvars,
          mvars>>
notG == <<hvars, pvars, rvars, xvars, cvars, evars, tvars, svars, zvars,
          mvars>>
notX == <<hvars, pvars, rvars, gvars, cvars, evars, tvars, svars, zvars,
          mvars>>
notC == <<hvars, pvars, rvars, gvars, xvars, evars, tvars, svars, zvars,
          mvars>>
notE == <<hvars, pvars, rvars, gvars, xvars, cvars, tvars, svars, zvars,
          mvars>>
notT == <<hvars, pvars, rvars, gvars, xvars, cvars, evars, svars, zvars,
          mvars>>
notS == <<hvars, pvars, rvars, gvars, xvars, cvars, evars, tvars, zvars,
          mvars>>
notZ == <<hvars, pvars, rvars, gvars, xvars, cvars, evars, tvars, svars,
          mvars>>
notM == <<hvars, pvars, rvars, gvars, xvars, cvars, evars, tvars, svars,
          zvars>>

-----------------------------------------------------------------------------
(* Bounds of the model *)

\* the document has lines 1..MaxLine
MaxLine == 4
\* at most this many candidates are collected from a document
MaxExamples == 3
\* at most this many examples are handed to the parser
MaxParses == 2
\* the timeout option of an example is in 1..MaxTimeout (ticks)
MaxTimeout == 2
\* at most this many chunks wait in the buffer of pexpect after a timeout
MaxPending == 2

\* a terminal has 1..MaxSize rows and 1..MaxSize columns
MaxSize == 2
\* a line of an example begins with 0..MaxIndent spaces
MaxIndent == 1
\* an example text has 1..MaxTextLines lines
MaxTextLines == 3
\* a finder finds at most MaxMatches matches in a zone
MaxMatches == 2
\* verbosity is in 0..MaxVerbosity
MaxVerbosity == 2
\* the body of human_exceptions is inside at most MaxScopes blocks of
\* enhance_exceptions
MaxScopes == 2
\* the interpreter prints at most MaxOutputLen characters before _get_output
MaxOutputLen == 4
\* a shebang template is made of at most MaxTemplatePieces pieces
MaxTemplatePieces == 5
\* a document has at most MaxDocLen characters
MaxDocLen == 4
\* an expected string is made of at most MaxExpectedPieces pieces
MaxExpectedPieces == 5
\* at most MaxPad new lines are put after the expected string in the output
MaxPad == 2
\* a document with indented lines has at most MaxIndentedLen characters
MaxIndentedLen == 3
\* the time measured around an expect that found the prompt is at most
\* MaxOverrun ticks more than the timeout of the expect
MaxOverrun == 1
-----------------------------------------------------------------------------
(* Harvester: data *)

NoExample == [start_lineno |-> 0, end_lineno |-> 0]
NoError == [kind |-> "none"]
Filepath == "foo.rst"

\* from_string_get_items_using: start_lineno and end_lineno are inclusive,
\* end_lineno = start_lineno + str_matched.count('\n'); the indent stripper
\* either keeps at least the first line or raises, so start <= end
Candidates ==
    { c \in [start_lineno : 1..MaxLine, end_lineno : 1..MaxLine] :
        c.start_lineno <= c.end_lineno }

\* the sort key of line 235: (this.start_lineno, -this.end_lineno)
KeyLE(a, b) ==
    \/ a.start_lineno < b.start_lineno
    \/ a.start_lineno = b.start_lineno /\ (0 - a.end_lineno) <= (0 - b.end_lineno)

\* one step of a stable sort: e goes after every element whose key is <= its own
InsertSorted(s, e) ==
    LET n == Cardinality({ j \in 1..Len(s) : KeyLE(s[j], e) })
    IN  SubSeq(s, 1, n) \o <<e>> \o SubSeq(s, n + 1, Len(s))

RECURSIVE SortExamples(_)
SortExamples(s) ==
    IF s = <<>> THEN <<>>
    ELSE InsertSorted(SortExamples(SubSeq(s, 1, Len(s) - 1)), s[Len(s)])

\* a faulty deletion that also takes the element before i
DelAt_Two(s, i) == SubSeq(s, 1, i - 2) \o SubSeq(s, i + 1, Len(s))

\* a faulty deletion that removes the outer example instead of the inner one
DelAt_Prev(s, i) == SubSeq(s, 1, i - 2) \o SubSeq(s, i, Len(s))

\* del examples[i]
DelAt(s, i) == SubSeq(s, 1, i - 1) \o SubSeq(s, i + 1, Len(s))

\* lines 313-320 of check_example_overlap
CollisionType1(p, example) == p.start_lineno = example.start_lineno

\* a faulty Type 2 test that forgets to exclude the Type 1 collision
CollisionType2_SameStart(p, example) == example.end_lineno <= p.end_lineno

CollisionType2(p, example) ==
    /\ ~CollisionType1(p, example)
    /\ example.end_lineno <= p.end_lineno

\* a faulty Type 3 test with < for <=
CollisionType3_Strict(p, example) ==
    /\ ~CollisionType1(p, example)
    /\ ~CollisionType2(p, example)
    /\ example.start_lineno < p.end_lineno

CollisionType3(p, example) ==
    /\ ~CollisionType1(p, example)
    /\ ~CollisionType2(p, example)
    /\ example.start_lineno <= p.end_lineno

\* a faulty any_collision that forgets the Type 1 collision
AnyCollision_NoType1(p, example) ==
    \/ CollisionType2(p, example)
    \/ CollisionType3(p, example)

AnyCollision(p, example) ==
    \/ CollisionType1(p, example)
    \/ CollisionType2(p, example)
    \/ CollisionType3(p, example)

\* a faulty message that names the span of prev twice
OverlapError_PrevTwice(p, example) ==
    [kind |-> "ValueError", filepath |-> Filepath,
     curr |-> <<p.start_lineno, p.end_lineno>>,
     prev |-> <<p.start_lineno, p.end_lineno>>]

\* lines 342-347: the message names the file and both spans
OverlapError(p, example) ==
    [kind |-> "ValueError", filepath |-> Filepath,
     curr |-> <<example.start_lineno, example.end_lineno>>,
     prev |-> <<p.start_lineno, p.end_lineno>>]

-----------------------------------------------------------------------------
(* Parser: data *)

\* the options every scope resolves: norm_ws, tags and rm
DefaultOptions == [norm_ws |-> FALSE, tags |-> TRUE, rm |-> <<>>]

\* the tokens the extended option parser knows, and one it does not
KnownTokens == {"+norm-ws", "-tags", "+rm=a", "+rm=ab"}
Tokens == KnownTokens \cup {"+bogus"}

ApplyToken(o, t) ==
    CASE t = "+norm-ws" -> [o EXCEPT !.norm_ws = TRUE]
      [] t = "-tags"    -> [o EXCEPT !.tags = FALSE]
      [] t = "+rm=a"    -> [o EXCEPT !.rm = Append(@, <<"a">>)]
      [] t = "+rm=ab"   -> [o EXCEPT !.rm = Append(@, <<"a", "b">>)]
      [] OTHER          -> o

RECURSIVE ApplyTokens(_, _)
ApplyTokens(o, optlist) ==
    IF optlist = <<>> THEN o
    ELSE ApplyTokens(ApplyToken(o, Head(optlist)), Tail(optlist))

\* optparser_extended.parse(optlist, strict=True) raises UnrecognizedOption
Unrecognized(optlist) == \E i \in 1..Len(optlist) : optlist[i] \notin KnownTokens

\* _extend_parser_and_parse_options_strictly, for a recognized list
ParseOptionsStrictly(optlist) == ApplyTokens(DefaultOptions, optlist)

\* Options.up and Options.down
OptionsUp(stack, scope) == Append(stack, scope)
OptionsDown(stack) == SubSeq(stack, 1, Len(stack) - 1)

\* Options.__getitem__: the most recent scope wins
OptionsGet(stack, key) == stack[Len(stack)][key]

\* does s begin with x at position i
OccursAt(s, x, i) ==
    /\ i + Len(x) - 1 <= Len(s)
    /\ SubSeq(s, i, i + Len(x) - 1) = x

\* str.replace(x, ''): the occurrences of x are removed from left to right
RECURSIVE Remove(_, _)
Remove(s, x) ==
    IF x = <<>> \/ s = <<>> THEN s
    ELSE IF OccursAt(s, x, 1) THEN Remove(SubSeq(s, Len(x) + 1, Len(s)), x)
    ELSE <<Head(s)>> \o Remove(Tail(s), x)

\* parse, lines 112-113: for x in options['rm']
RECURSIVE RemoveAll(_, _)
RemoveAll(s, rm) ==
    IF rm = <<>> THEN s ELSE RemoveAll(Remove(s, Head(rm)), Tail(rm))

\* process_snippet_and_expected: the snippet ends with a new line
ProcessSnippet(snippet) ==
    IF snippet # <<>> /\ snippet[Len(snippet)] = "\n" THEN snippet
    ELSE Append(snippet, "\n")

\* the examples handed to the parser: the snippet, the tokens of its
\* "byexample:" comment and the expected text
Snippets == { <<"f">>, <<"f", "\n">> }
OptLists == { <<>>, <<"+rm=a">>, <<"+rm=ab">>, <<"-tags">>,
              <<"-tags", "+norm-ws">>, <<"+bogus">> }
ExpectedStrs == { <<>>, <<"b">>, <<"a", "b", "a">>, <<"a", "a", "b", "b">> }

\* Example.__init__: an example the finder built, not parsed yet; `id` tells
\* the examples apart and `found_expected` keeps the expected text found
FreshExample(id, sn, ol, es) ==
    [id |-> id, snippet |-> sn, optlist |-> ol, expected_str |-> es,
     found_expected |-> es, source |-> <<>>, options |-> <<>>,
     expected |-> <<>>, fully_parsed |-> FALSE]

NoParsedExample == FreshExample(0, <<>>, <<>>, <<>>)

\* parse_yourself without the test of line 89
MayParse_Always(e) == TRUE

\* parse_yourself, line 89: the example is not parsed yet
MayParse(e) == ~e.fully_parsed

\* the key of the cache is the first token only
CacheKey_FirstToken(optlist) ==
    IF optlist = <<>> THEN <<>> ELSE <<Head(optlist)>>

\* tuple(optlist)
CacheKey(optlist) == optlist

\* self._opts_cache[tuple(optlist)] raises KeyError
CacheMiss(cache, optlist) == ~\E e \in cache : e.key = CacheKey(optlist)

\* self._opts_cache[tuple(optlist)]
CacheGet(cache, optlist) == (CHOOSE e \in cache : e.key = CacheKey(optlist)).val

\* self._opts_cache[tuple(optlist)] = val, for a key that is not there
CachePut(cache, optlist, val) ==
    cache \cup {[key |-> CacheKey(optlist), val |-> val]}
-----------------------------------------------------------------------------
(* Runner: data *)

Max(a, b) == IF a >= b THEN a ELSE b
Min(a, b) == IF a <= b THEN a ELSE b

\* the position of the first c in s, 0 if there is none
FirstIndex(s, c) ==
    IF \E i \in 1..Len(s) : s[i] = c
    THEN CHOOSE i \in 1..Len(s) : s[i] = c /\ \A j \in 1..(i - 1) : s[j] # c
    ELSE 0

\* str.split(sep) for a separator of one character
RECURSIVE SplitOn(_, _)
SplitOn(s, sep) ==
    LET i == FirstIndex(s, sep)
    IN  IF i = 0 THEN <<s>>
        ELSE <<SubSeq(s, 1, i - 1)>> \o SplitOn(SubSeq(s, i + 1, Len(s)), sep)

\* sep.join(pieces)
RECURSIVE Join(_, _)
Join(pieces, sep) ==
    IF pieces = <<>> THEN <<>>
    ELSE IF Len(pieces) = 1 THEN pieces[1]
    ELSE pieces[1] \o <<sep>> \o Join(Tail(pieces), sep)

\* ''.join(chunks)
RECURSIVE Concat(_)
Concat(chunks) ==
    IF chunks = <<>> THEN <<>> ELSE Head(chunks) \o Concat(Tail(chunks))

\* str.splitlines(): "\n", "\r" and "\r\n" end a line, and the end of the
\* string adds no empty line
RECURSIVE SplitLinesFrom(_, _, _)
SplitLinesFrom(s, cur, acc) ==
    IF s = <<>> THEN (IF cur = <<>> THEN acc ELSE Append(acc, cur))
    ELSE IF Len(s) >= 2 /\ s[1] = "\r" /\ s[2] = "\n"
         THEN SplitLinesFrom(SubSeq(s, 3, Len(s)), <<>>, Append(acc, cur))
    ELSE IF s[1] \in {"\n", "\r"}
         THEN SplitLinesFrom(Tail(s), <<>>, Append(acc, cur))
    ELSE SplitLinesFrom(Tail(s), Append(cur, s[1]), acc)

SplitLines(s) == SplitLinesFrom(s, <<>>, <<>>)

\* _universal_new_lines
UniversalNewLines(o) == Join(SplitLines(o), "\n")

\* chunk.expandtabs(8)
TabSize == 8

Spaces(n) == [i \in 1..n |-> " "]

\* expandtabs, had it written one space for a tab
RECURSIVE ExpandTabsFrom_OneSpace(_, _)
ExpandTabsFrom_OneSpace(s, col) ==
    IF s = <<>> THEN <<>>
    ELSE IF s[1] = "\t" THEN <<" ">> \o ExpandTabsFrom_OneSpace(Tail(s), col + 1)
    ELSE <<s[1]>> \o ExpandTabsFrom_OneSpace(Tail(s), col + 1)

RECURSIVE ExpandTabsFrom(_, _)
ExpandTabsFrom(s, col) ==
    IF s = <<>> THEN <<>>
    ELSE IF s[1] = "\t"
         THEN LET n == TabSize - (col % TabSize)
              IN  Spaces(n) \o ExpandTabsFrom(Tail(s), col + n)
    ELSE IF s[1] \in {"\n", "\r"} THEN <<s[1]>> \o ExpandTabsFrom(Tail(s), 0)
    ELSE <<s[1]>> \o ExpandTabsFrom(Tail(s), col + 1)

ExpandTabs(s) == ExpandTabsFrom(s, 0)

\* str.rstrip()
RECURSIVE RStrip(_)
RStrip(s) ==
    IF s # <<>> /\ s[Len(s)] \in {" ", "\t", "\n", "\r"}
    THEN RStrip(SubSeq(s, 1, Len(s) - 1))
    ELSE s

\* _emulate_dumb_terminal, for one chunk
EmulateDumbChunk(chunk) ==
    LET ls == SplitOn(ExpandTabs(UniversalNewLines(chunk)), "\n")
    IN  Join([i \in 1..Len(ls) |-> RStrip(ls[i])], "\n")

\* _emulate_dumb_terminal
EmulateDumbTerminal(chunks) ==
    Concat([i \in 1..Len(chunks) |-> EmulateDumbChunk(chunks[i])])

\* _emulate_as_is_terminal
EmulateAsIsTerminal(chunks) ==
    Concat([i \in 1..Len(chunks) |-> UniversalNewLines(chunks[i])])

\* the text _get_output returns for self.last_output = chunks (the terminals
\* "dumb" and "as-is")
GetOutput(term, chunks) ==
    IF term = "dumb" THEN EmulateDumbTerminal(chunks)
    ELSE EmulateAsIsTerminal(chunks)

\* options['stop_on_silence'] is False by default; False is written -1 here
False_ == 0 - 1

\* options['x']['dfl_timeout'], in ticks
DflTimeout == 2

\* the options of a call of run or cancel
RunOptions ==
    [timeout : 1..MaxTimeout,
     stop_on_timeout : BOOLEAN,
     stop_on_silence : {False_} \cup (1..MaxTimeout),
     term : {"dumb", "as-is"}]

\* the options initialize reads: stop_on_silence and term
InitializeOptions ==
    { o \in RunOptions : o.timeout = 1 /\ ~o.stop_on_timeout }

\* modules/shell.py lines 181-185: the source initialize runs, four lines
\* that export PS1 to PS4, each written as one character here
InitializeSource == <<"1", "\n", "2", "\n", "3", "\n", "4", "\n">>

NoOptions ==
    [timeout |-> 0, stop_on_timeout |-> FALSE, stop_on_silence |-> False_,
     term |-> "dumb"]

\* example.source: a parsed source ends with a new line
Sources == { <<"x", "\n">>, <<"x", "\n", "y", "\n">> }

\* what the interpreter may print while the runner waits in one expect
Chunks == { <<>>, <<"a", " ", "\r", "\n">> }

MaxChunkLen == CHOOSE n \in { Len(c) : c \in Chunks } : \A c \in Chunks : Len(c) <= n

\* the characters the interpreter prints
TermChars == {"h", "i", " ", "\t", "\r", "\n"}

\* the texts one expect reads: not empty (an empty text adds nothing to
\* ''.join) and of at most n characters
RECURSIVE TextsUpTo(_)
TextsUpTo(n) ==
    IF n = 0 THEN {<<>>}
    ELSE LET shorter == TextsUpTo(n - 1)
         IN  shorter \cup { Append(t, c) : t \in shorter, c \in TermChars }

NoExc == [kind |-> "none", output |-> <<>>, before |-> <<>>]
NoResult == [kind |-> "none", output |-> <<>>, value |-> "none"]

\* one entry of the history of a call
Event(ev, arg, re, t, what) ==
    [ev |-> ev, arg |-> arg, re |-> re, t |-> t, what |-> what]

-----------------------------------------------------------------------------
(* Terminal geometry: data *)

\* options['geometry']: (rows, cols)
Geometries == (1..MaxSize) \X (1..MaxSize)

NoGeometry == <<0, 0>>

\* _change_terminal_geometry_ctx, line 182, with force ignored
NeedChange_IgnoresForce(dflt, g, f) == dflt # g

\* _change_terminal_geometry_ctx, line 182
NeedChange(dflt, g, f) == dflt # g \/ f

\* a context manager that restores the geometry only when the body returned
RestoreOnExit_OnlyOnReturn(changed, how) == changed /\ how = "returned"

\* _change_terminal_geometry_ctx, lines 185-190: try / finally
RestoreOnExit(changed, how) == changed

-----------------------------------------------------------------------------
(* Finder: data of get_snippet_and_expected *)

\* the lines an example is made of: some spaces, then nothing, a PS1
\* prompt and a command, a PS2 prompt and a command, with or without a
\* space between them, or some output
LineHeads ==
    {<<>>, <<"$", " ", "x">>, <<">", " ", "x">>, <<">", "x">>, <<"x">>}

Indents == {Spaces(i) : i \in 0..MaxIndent}

FinderLines == {i \o h : i \in Indents, h \in LineHeads}

\* the texts of at most MaxTextLines lines
Texts ==
    {Join(ls, "\n") : ls \in UNION {[1..n -> FinderLines] : n \in 1..MaxTextLines}}

\* Where, without the file path and the zone delimiter
NoWhere == [start_lineno |-> 0, end_lineno |-> 0]

\* line.startswith(prefix)
StartsWith(line, prefix) ==
    Len(line) >= Len(prefix) /\ SubSeq(line, 1, Len(prefix)) = prefix

\* line[len(indent):] with one character too many
StripIndent_OneMore(line, ind) == SubSeq(line, Len(ind) + 2, Len(line))

\* line[len(indent):]
StripIndent(line, ind) == SubSeq(line, Len(ind) + 1, Len(line))

\* the end line of an example cut at the line before `lineno`, one line
\* too early
ShrunkEnd_LineBefore(first, lineno) == first + lineno - 2

\* the end line of an example cut at the line before `lineno`, counted
\* from the cut line itself
ShrunkEnd_CutLine(first, lineno) == first + lineno

\* start_lineno + lineno - 1
ShrunkEnd(first, lineno) == first + lineno - 1

\* the kept lines, each one ended by a new line
JoinLines_Terminated(ls) == Join(ls, "\n") \o <<"\n">>

\* '\n'.join(indent_stripped)
JoinLines(ls) == Join(ls, "\n")

\* the for loop of check_and_remove_indent: `lineno` counts from 0
RECURSIVE IndentLoop(_, _, _, _)
IndentLoop(ls, lineno, ind, indent_stripped) ==
    IF lineno >= Len(ls)
    THEN [broke |-> FALSE, lineno |-> lineno, indent_stripped |-> indent_stripped]
    ELSE LET line == ls[lineno + 1]
         IN  IF ~StartsWith(line, ind) /\ line # <<>>
             THEN [broke |-> TRUE, lineno |-> lineno,
                   indent_stripped |-> indent_stripped]
             ELSE IndentLoop(ls, lineno + 1, ind,
                             Append(indent_stripped, StripIndent(line, ind)))

\* a check_and_remove_indent that leaves `where` as it was when it raises
CheckAndRemoveIndent_WhereKept(str, ind, w) ==
    LET r  == IndentLoop(SplitOn(str, "\n"), 0, ind, <<>>)
    IN  IF r.indent_stripped = <<>>
        THEN [err |-> "Inconsistent state.", str |-> <<>>, where |-> w]
        ELSE [err |-> "none", str |-> JoinLines(r.indent_stripped),
              where |-> IF r.broke
                        THEN [w EXCEPT !.end_lineno =
                                         ShrunkEnd(w.start_lineno, r.lineno)]
                        ELSE w]

\* check_and_remove_indent: the text returned or the error raised, and
\* `where` as the call leaves it
CheckAndRemoveIndent(str, ind, w) ==
    LET r  == IndentLoop(SplitOn(str, "\n"), 0, ind, <<>>)
        w2 == IF r.broke
              THEN [w EXCEPT !.end_lineno = ShrunkEnd(w.start_lineno, r.lineno)]
              ELSE w
    IN  IF r.indent_stripped = <<>>
        THEN [err |-> "Inconsistent state.", str |-> <<>>, where |-> w2]
        ELSE [err |-> "none", str |-> JoinLines(r.indent_stripped), where |-> w2]

\* the number of spaces a line begins with
RECURSIVE LeadingSpaces(_)
LeadingSpaces(line) ==
    IF line # <<>> /\ Head(line) = " " THEN 1 + LeadingSpaces(Tail(line)) ELSE 0

\* ShellPromptFinder.example_regex, the PS1 line: [ ]* \$ [ ] .*
IsPS1Line(line) ==
    LET k == LeadingSpaces(line)
    IN  Len(line) >= k + 2 /\ line[k + 1] = "$" /\ line[k + 2] = " "

\* the PS2 lines: [ ]* > .*
IsPS2Line(line) ==
    LET k == LeadingSpaces(line) IN Len(line) >= k + 1 /\ line[k + 1] = ">"

\* the expected lines: not a blank line, not the start of another prompt
IsExpectedLine(line) ==
    LET k == LeadingSpaces(line) IN k < Len(line) /\ line[k + 1] # "$"

\* the last of the lines from..last that all satisfy the test of a group
\* under `*`, from - 1 if the first one does not
RECURSIVE LastPS2(_, _)
LastPS2(ls, from) ==
    IF from <= Len(ls) /\ IsPS2Line(ls[from]) THEN LastPS2(ls, from + 1)
    ELSE from - 1

RECURSIVE LastExpected(_, _)
LastExpected(ls, from) ==
    IF from <= Len(ls) /\ IsExpectedLine(ls[from]) THEN LastExpected(ls, from + 1)
    ELSE from - 1

\* the offset in the text where line number i (from 1) ends
RECURSIVE EndOfLine(_, _)
EndOfLine(ls, i) ==
    IF i = 0 THEN 0
    ELSE IF i = 1 THEN Len(ls[1])
    ELSE EndOfLine(ls, i - 1) + 1 + Len(ls[i])

NoMatch == [matched |-> FALSE, start |-> 0, end |-> 0, indent |-> <<>>,
            snippet |-> <<>>, expected |-> <<>>]

\* example_regex().match(text): the regex is anchored at offset 0, takes
\* the PS1 line, the PS2 lines that follow, one new line, and then the
\* expected lines, each with its new line
ReMatch(text) ==
    LET ls == SplitOn(text, "\n")
        n  == Len(ls)
        k  == LastPS2(ls, 2)
        j  == LastExpected(ls, k + 1)
        snippet_end  == EndOfLine(ls, k)
        expected_beg == IF k < n THEN snippet_end + 1 ELSE snippet_end
        end == IF j < n THEN EndOfLine(ls, j) + 1 ELSE EndOfLine(ls, n)
    IN  IF ~IsPS1Line(ls[1]) THEN NoMatch
        ELSE [matched |-> TRUE, start |-> 0, end |-> end,
              indent |-> Spaces(LeadingSpaces(ls[1])),
              snippet |-> SubSeq(text, 1, snippet_end),
              expected |-> SubSeq(text, expected_beg + 1, end)]

\* the texts the regex matches from their first to their last character:
\* what match.group(0) can be
Matches == {t \in Texts : ReMatch(t).matched /\ ReMatch(t).end = Len(t)}

\* check_keep_matching reports the lost bytes at the other end
Dropped_OtherEnd(str, m) ==
    IF m.start # 0
    THEN [at |-> "end", dropped |-> SubSeq(str, 1, m.start)]
    ELSE [at |-> "begin", dropped |-> SubSeq(str, m.end + 1, Len(str))]

\* check_keep_matching: the bytes the new match lost and at which end
Dropped(str, m) ==
    IF m.start # 0
    THEN [at |-> "begin", dropped |-> SubSeq(str, 1, m.start)]
    ELSE [at |-> "end", dropped |-> SubSeq(str, m.end + 1, Len(str))]

\* ShellPromptFinder._remove_prompts: line[2:] of every line
RemovePrompts(snippet) ==
    LET ls == SplitOn(snippet, "\n")
    IN  Join([i \in 1..Len(ls) |-> SubSeq(ls[i], 3, Len(ls[i]))], "\n")

NoXError == [type |-> "none", msg |-> "none", at |-> "none", dropped |-> <<>>]

NoGiven == [str |-> <<>>, indent |-> <<>>, where |-> NoWhere]

\* str.count('\n')
CountNewLines(s) == Cardinality({i \in 1..Len(s) : s[i] = "\n"})

\* from_string_get_items_using: the lines of a match that starts at line
\* `first`; a new line that ends the match is not counted
WhereOfMatch(str, first) ==
    LET str_matched == IF str # <<>> /\ str[Len(str)] = "\n"
                       THEN SubSeq(str, 1, Len(str) - 1) ELSE str
    IN  [start_lineno |-> first,
         end_lineno   |-> first + CountNewLines(str_matched)]
-----------------------------------------------------------------------------
(* Harvester: data of from_string_get_items_using and get_example *)

Languages == {"shell", "cpp"}

\* what finder.get_language_of returns: a language, or nothing
NoLanguage == ""

\* a match: the new lines between the start of the match before it and its
\* own start, the new lines inside it, the language the finder reports, and
\* whether finder.get_snippet_and_expected raises on it
FoundMatches ==
    [gap : 0..1, newlines : 0..1, language : Languages \cup {NoLanguage},
     fails : BOOLEAN]

NoCur == [language |-> NoLanguage, fails |-> FALSE,
          where |-> [start_lineno |-> 0, end_lineno |-> 0]]

\* get_example without the test of the runner
DropReason_RunnerUnchecked(language, allowed, parsers, runners) ==
    IF language = NoLanguage THEN "language undefined"
    ELSE IF language \notin allowed THEN "language not allowed"
    ELSE IF language \notin parsers THEN "no parser found"
    ELSE "none"

\* get_example, lines 393-413: why the match is dropped, "none" if it is not
DropReason(language, allowed, parsers, runners) ==
    IF language = NoLanguage THEN "language undefined"
    ELSE IF language \notin allowed THEN "language not allowed"
    ELSE IF language \notin parsers THEN "no parser found"
    ELSE IF language \notin runners THEN "no runner found"
    ELSE "none"
-----------------------------------------------------------------------------
(* Exceptions: data *)

\* classes of the exceptions a body raises; GeneratorExit is a BaseException
\* that is not an Exception
ExcClasses == {"KeyboardInterrupt", "SystemExit", "GeneratorExit", "ValueError"}

\* the components get_example and get_zone name as owner
Owners == {"finder", "parser", "zdelimiter"}

\* '%i' of a line number
LineStr(n) ==
    CASE n = 1 -> "1" [] n = 2 -> "2" [] n = 3 -> "3" [] OTHER -> "4"

\* build_where_msg without msg: 'File "%s", line %i' and ', [owner]'; the
\* highlighted source that follows is a function of `where` alone and is
\* left out
BuildWhereMsg(w, owner) ==
    <<"File \"", Filepath, "\", line ", LineStr(w), ", [", owner, "]">>

\* an exception object without the attribute `where`
NoWhereMsg == <<>>

\* a `where` an exception carries when it is raised
ForeignWhereMsg == <<"elsewhere">>

\* where_default of human_exceptions
WhereDefault == <<"default">>

\* no exception is propagating
NoFlying == [id |-> 0, cls |-> "", where |-> NoWhereMsg]

\* the exception objects a body raises: identity, class, attribute `where`
Raisable ==
    [id : 1..2, cls : ExcClasses, where : {NoWhereMsg, ForeignWhereMsg}]

\* the blocks of enhance_exceptions
Scopes == [where : 1..2, owner : Owners]

\* enhance_exceptions, had it set e.where unconditionally
Enhance_Overwrites(e, scope) ==
    [e EXCEPT !.where = BuildWhereMsg(scope.where, scope.owner)]

\* common.py lines 241-242: e.where is set if e has no attribute `where`
Enhance(e, scope) ==
    IF e.where = NoWhereMsg
    THEN [e EXCEPT !.where = BuildWhereMsg(scope.where, scope.owner)]
    ELSE e

\* human_exceptions, had its last clause been `except Exception`
ExceptClause_ExceptionOnly(cls) ==
    CASE cls = "KeyboardInterrupt" -> "KeyboardInterrupt"
      [] cls = "SystemExit" -> "SystemExit"
      [] cls = "GeneratorExit" -> "none"
      [] OTHER -> "BaseException"

\* common.py lines 217-223: the except clause that catches an exception of
\* class cls; every class derives from BaseException
ExceptClause(cls) ==
    CASE cls = "KeyboardInterrupt" -> "KeyboardInterrupt"
      [] cls = "SystemExit" -> "SystemExit"
      [] OTHER -> "BaseException"

\* one call of print: the location, the class name and the message
Line(w, cls, msg) == [where |-> w, cls |-> cls, msg |-> msg]

\* common.py lines 217-232: what the except clauses print for e
Report(e, v, q) ==
    CASE ExceptClause(e.cls) = "KeyboardInterrupt" ->
            IF ~q
            THEN <<Line(NoWhereMsg, "", "Execution aborted by the user.")>>
            ELSE <<>>
      [] ExceptClause(e.cls) = "SystemExit" -> <<>>
      [] OTHER ->
            IF q THEN <<>>
            ELSE <<Line(IF e.where = NoWhereMsg THEN WhereDefault ELSE e.where,
                        e.cls,
                        IF v >= 1 THEN "traceback.format_exc()"
                        ELSE "str(e) Rerun with -v to get a full stack trace.")>>

\* the dictionary `o` that is yielded
EmptyDict == <<>>
DictWithExc(e) == [k \in {"exc"} |-> e]
-----------------------------------------------------------------------------
(* Shebang templates: data *)

\* the result of a function that may raise: the value, or the exception
Ok(v) == [error |-> "none", value |-> v]
Raised(e) == [error |-> e, value |-> <<>>]

\* shlex: the characters that separate words
ShlexWhiteSpace == {" ", "\t", "\r", "\n"}

\* shlex: the quote characters
ShlexQuotes == {"'", "\""}

\* shlex.split in POSIX mode, for texts without backslash: white space
\* separates words, a quote character opens a region that runs to the next
\* one like it, a quoted region makes a word even if it is empty, and a
\* region that is not closed raises ValueError.  mode is "a" outside quotes
\* or the quote character, tok the word so far, has whether there is one
RECURSIVE ShlexFrom(_, _, _, _, _)
ShlexFrom(s, mode, tok, has, acc) ==
    IF s = <<>>
    THEN IF mode \in ShlexQuotes THEN Raised("ValueError")
         ELSE Ok(IF has THEN Append(acc, tok) ELSE acc)
    ELSE LET c == Head(s)
             rest == Tail(s)
         IN  IF mode = "a"
             THEN IF c \in ShlexWhiteSpace
                  THEN ShlexFrom(rest, "a", <<>>, FALSE,
                                 IF has THEN Append(acc, tok) ELSE acc)
                  ELSE IF c \in ShlexQuotes
                  THEN ShlexFrom(rest, c, tok, TRUE, acc)
                  ELSE ShlexFrom(rest, "a", Append(tok, c), TRUE, acc)
             ELSE IF c = mode
                  THEN ShlexFrom(rest, "a", tok, TRUE, acc)
                  ELSE ShlexFrom(rest, mode, Append(tok, c), TRUE, acc)

ShlexSplit(s) == ShlexFrom(s, "a", <<>>, FALSE, <<>>)

\* shlex.quote: the characters that need no quoting, of those that occur
SafeChars == {"x", "e", "a", "u", "v", "w", "%"}

\* s.replace("'", "'\"'\"'")
RECURSIVE EscapeQuotes(_)
EscapeQuotes(s) ==
    IF s = <<>> THEN <<>>
    ELSE (IF Head(s) = "'" THEN <<"'", "\"", "'", "\"", "'">> ELSE <<Head(s)>>)
         \o EscapeQuotes(Tail(s))

\* shlex.quote, had it left every text as it is
ShlexQuote_AsIs(s) == s

\* shlex.quote
ShlexQuote(s) ==
    IF s = <<>> THEN <<"'", "'">>
    ELSE IF \A i \in 1..Len(s) : s[i] \in SafeChars THEN s
    ELSE <<"'">> \o EscapeQuotes(s) \o <<"'">>

\* string.Template: the characters of an identifier, of those that occur
IdentChars == {"x", "e", "a", "u", "v", "w"}

\* the longest prefix of s made of identifier characters
RECURSIVE IdentPrefix(_)
IdentPrefix(s) ==
    IF s # <<>> /\ Head(s) \in IdentChars
    THEN <<Head(s)>> \o IdentPrefix(Tail(s))
    ELSE <<>>

\* string.Template.substitute with the delimiter '%': '%%' is '%', '%name'
\* is mapping[name] (KeyError without it), and any other '%' raises
\* ValueError; the form '%{name}' is not used by the templates here
RECURSIVE Substitute(_, _)
Substitute(s, mapping) ==
    IF s = <<>> THEN Ok(<<>>)
    ELSE IF Head(s) # "%"
    THEN LET r == Substitute(Tail(s), mapping)
         IN  IF r.error # "none" THEN r ELSE Ok(<<Head(s)>> \o r.value)
    ELSE IF Len(s) >= 2 /\ s[2] = "%"
    THEN LET r == Substitute(SubSeq(s, 3, Len(s)), mapping)
         IN  IF r.error # "none" THEN r ELSE Ok(<<"%">> \o r.value)
    ELSE LET name == IdentPrefix(Tail(s))
         IN  IF name = <<>> THEN Raised("ValueError")
             ELSE IF name \notin DOMAIN mapping THEN Raised("KeyError")
             ELSE LET r == Substitute(SubSeq(s, Len(name) + 2, Len(s)),
                                      mapping)
                  IN  IF r.error # "none" THEN r
                      ELSE Ok(mapping[name] \o r.value)

\* the keys of the tokens: 'e' is a string and 'a' a list of strings
KeyE == <<"e">>
KeyA == <<"a">>

\* common.py lines 299-304: self._tokens, every token quoted and a list
\* joined with spaces
QuotedTokens(toks) ==
    [k \in {KeyE, KeyA} |->
        IF k = KeyE THEN ShlexQuote(toks.e)
        ELSE Join([i \in 1..Len(toks.a) |-> ShlexQuote(toks.a[i])], " ")]

\* common.py lines 307-318: one word x of the template
QuoteWord(x, toks) ==
    LET inner == ShlexSplit(x)
    IN  IF inner.error # "none" THEN inner
        ELSE LET should_quote == Len(inner.value) > 1
                 sub == Substitute(x, QuotedTokens(toks))
             IN  IF sub.error # "none" THEN sub
                 ELSE Ok(IF should_quote THEN ShlexQuote(sub.value)
                         ELSE sub.value)

\* common.py lines 306-320: the loop over the words of the template
RECURSIVE QuoteWords(_, _)
QuoteWords(ws, toks) ==
    IF ws = <<>> THEN Ok(<<>>)
    ELSE LET first == QuoteWord(Head(ws), toks)
         IN  IF first.error # "none" THEN first
             ELSE LET r == QuoteWords(Tail(ws), toks)
                  IN  IF r.error # "none" THEN r
                      ELSE Ok(<<first.value>> \o r.value)

\* common.py lines 262-320: quote_and_substitute
QuoteAndSubstitute(tpl, toks) ==
    LET ws == ShlexSplit(tpl)
    IN  IF ws.error # "none" THEN ws
        ELSE LET r == QuoteWords(ws.value, toks)
             IN  IF r.error # "none" THEN r ELSE Ok(Join(r.value, " "))

\* the pieces a template is written with
TemplatePieces == {<<"x">>, <<" ">>, <<"'">>, <<"%", "e">>, <<"%", "a">>}

\* the templates of at most n pieces
RECURSIVE TemplatesUpTo(_)
TemplatesUpTo(n) ==
    IF n = 0 THEN {<<>>}
    ELSE LET shorter == TemplatesUpTo(n - 1)
         IN  shorter \cup { t \o p : t \in shorter, p \in TemplatePieces }

\* the tokens a runner passes
TokenSets ==
    [e : {<<>>, <<"v", " ", "w">>, <<"v", "'", "w">>},
     a : {<<>>, << <<"v", " ", "w">>, <<"u">> >>}]

NoTokens == [e |-> <<>>, a |-> <<>>]
-----------------------------------------------------------------------------
(* Zones and line numbers: data *)

\* the documents: texts of at most n characters, each a new line or not
RECURSIVE DocsUpTo(_)
DocsUpTo(n) ==
    IF n = 0 THEN {<<>>}
    ELSE LET shorter == DocsUpTo(n - 1)
         IN  shorter \cup { Append(d, c) : d \in shorter, c \in {"x", "\n"} }

\* the documents with indented lines: texts of at most n characters, each
\* a space, a new line or another character
RECURSIVE IndentedDocsUpTo(_)
IndentedDocsUpTo(n) ==
    IF n = 0 THEN {<<>>}
    ELSE LET shorter == IndentedDocsUpTo(n - 1)
         IN  shorter \cup
             { Append(d, c) : d \in shorter, c \in {"x", " ", "\n"} }

\* string[a:b]
Slice(string, a, b) == SubSeq(string, a + 1, b)

\* the spans of a text from offset lo to offset n that are not empty
Spans(lo, n) == { p \in (lo..n) \X (lo..n) : p[1] < p[2] }

\* what finditer gives on a text of n characters, from offset lo on: matches
\* that are not empty, do not overlap and are in the order of the text, each
\* with match.start() and match.end()
RECURSIVE MatchLists(_, _)
MatchLists(lo, n) ==
    {<<>>} \cup
    UNION { { <<[start |-> p[1], end |-> p[2]]>> \o rest :
                rest \in MatchLists(p[2], n) } :
            p \in Spans(lo, n) }

\* finder.py lines 442-443, had the new line at the end been kept
StrMatched_Whole(str) == str

\* finder.py lines 441-443: str_matched without the new line at its end
StrMatched(str) ==
    IF str # <<>> /\ str[Len(str)] = "\n"
    THEN SubSeq(str, 1, Len(str) - 1) ELSE str

\* finder.py lines 437-457: the loop of from_string_get_items_using over the
\* matches ms of string, with the locals charno and start_lineno (lineno);
\* the `where` of every match
RECURSIVE WheresFrom(_, _, _, _)
WheresFrom(string, ms, charno, lineno) ==
    IF ms = <<>> THEN <<>>
    ELSE LET m == Head(ms)
             str_matched == StrMatched(Slice(string, m.start, m.end))
             first == lineno + CountNewLines(Slice(string, charno, m.start))
             last == first + CountNewLines(str_matched)
         IN  <<[start_lineno |-> first, end_lineno |-> last]>>
             \o WheresFrom(string, Tail(ms), m.start, first)

\* from_string_get_items_using(matcher, string, getter, what, filepath,
\* start_lineno)
FromStringGetWheres(string, ms, first) == WheresFrom(string, ms, 0, first)

\* ZoneDelimiter.get_zone: match.group('zone'), the part of the match from
\* offset g.from to offset g.to of the document
GetZone(string, g) == Slice(string, g.from, g.to)

\* what finditer gives for a zone delimiter: the matches, each with the
\* place of its group 'zone', from match.start('zone') to match.end('zone')
RECURSIVE ZoneMatchLists(_, _)
ZoneMatchLists(lo, n) ==
    {<<>>} \cup
    UNION { { <<[start |-> p[1], end |-> p[2], from |-> g[1], to |-> g[2]]>>
              \o rest :
                rest \in ZoneMatchLists(p[2], n),
                g \in Spans(p[1], p[2]) \cup { <<a, a>> : a \in p[1]..p[2] } } :
            p \in Spans(lo, n) }

\* match.group('indent') of the finders: the spaces the match begins with
GroupIndent(text) == Spaces(LeadingSpaces(text))

\* get_snippet_and_expected, its first step: check_and_remove_indent on
\* match.group(0) with match.group('indent') and the `where` of the match
IndentChecked(text, w) == CheckAndRemoveIndent(text, GroupIndent(text), w)
-----------------------------------------------------------------------------
(* Expected-output compiler: data *)

Letters ==
    {"a", "b", "c", "d", "e", "f", "g", "h", "i", "j", "k", "l", "m", "n",
     "o", "p", "q", "r", "s", "t", "u", "v", "w", "x", "y", "z",
     "A", "B", "C", "D", "E", "F", "G", "H", "I", "J", "K", "L", "M", "N",
     "O", "P", "Q", "R", "S", "T", "U", "V", "W", "X", "Y", "Z"}

Digits == {"0", "1", "2", "3", "4", "5", "6", "7", "8", "9"}

\* what \s matches
ReSpace == {" ", "\t", "\n", "\r", "\f"}

\* capture_tag_regex: [A-Za-z.] and [A-Za-z0-9:.-]
TagNameStart == Letters \cup {"."}
TagNameChars == Letters \cup Digits \cup {":", ".", "-"}

\* the index after the characters of a tag name that begin at index i
RECURSIVE NameEnd(_, _)
NameEnd(s, i) ==
    IF i <= Len(s) /\ s[i] \in TagNameChars THEN NameEnd(s, i + 1) ELSE i

\* capture_tag_regex()['split'] tried at index i of s: the index of the '>'
\* that ends the tag, or 0 when no tag begins at i
TagEnd(s, i) ==
    IF i + 2 <= Len(s) /\ s[i] = "<" /\ s[i + 1] \in TagNameStart
    THEN LET j == NameEnd(s, i + 2)
         IN  IF j <= Len(s) /\ s[j] = ">" THEN j ELSE 0
    ELSE 0

\* a token: a piece of the expected string and the offset where it begins
Token(kind, text, charno) == [kind |-> kind, text |-> text, charno |-> charno]

\* the literal s[b..e], if it is not empty
LiteralToken(s, b, e) ==
    IF b > e THEN <<>> ELSE <<Token("lit", SubSeq(s, b, e), b - 1)>>

\* capture_tag_split_regex.split(expected): the literals and the tags of s
\* from index i on, b being the index where the literal in progress begins
RECURSIVE SplitTags(_, _, _)
SplitTags(s, b, i) ==
    IF i > Len(s) THEN LiteralToken(s, b, Len(s))
    ELSE LET e == TagEnd(s, i)
         IN  IF e = 0 THEN SplitTags(s, b, i + 1)
             ELSE LiteralToken(s, b, i - 1)
                  \o <<Token("tag", SubSeq(s, i, e), i - 1)>>
                  \o SplitTags(s, e + 1, e + 1)

\* the lexing of the expected string: with tags disabled the whole string
\* is one literal
Lex(s, enabled) ==
    IF enabled THEN SplitTags(s, 1, 1) ELSE LiteralToken(s, 1, Len(s))

\* ellipsis_marker
EllipsisMarker == <<".", ".", ".">>

\* the name of an unnamed tag
None == <<"N", "o", "n", "e">>

\* capture_tag_regex()['full']: the group 'name' of a tag, None for the
\* ellipsis marker
NameOfTagOrNone(tag) ==
    LET name == SubSeq(tag, 2, Len(tag) - 1)
    IN  IF name = EllipsisMarker THEN None ELSE name

\* tag_name_as_regex_name: name.replace('-', '_')
TagNameAsRegexName(name) ==
    [i \in 1..Len(name) |-> IF name[i] = "-" THEN "_" ELSE name[i]]

\* the index after the run of white space (ws = TRUE) or of other characters
\* (ws = FALSE) of s that begins at index i
RECURSIVE RunEnd(_, _, _)
RunEnd(s, i, ws) ==
    IF i <= Len(s) /\ ((s[i] \in ReSpace) = ws) THEN RunEnd(s, i + 1, ws)
    ELSE i

\* a literal cut into its maximal runs of white space ("ws") and of other
\* characters ("lit"), from index i of its text on
RECURSIVE SplitRuns(_, _)
SplitRuns(tok, i) ==
    IF i > Len(tok.text) THEN <<>>
    ELSE LET ws == tok.text[i] \in ReSpace
             j == RunEnd(tok.text, i, ws)
         IN  <<Token(IF ws THEN "ws" ELSE "lit",
                     SubSeq(tok.text, i, j - 1), tok.charno + i - 1)>>
             \o SplitRuns(tok, j)

\* the tokens of SM_NormWS: tags, runs of white space, other literals
RECURSIVE NormWSTokens(_)
NormWSTokens(toks) ==
    IF toks = <<>> THEN <<>>
    ELSE (IF Head(toks).kind = "tag" THEN <<Head(toks)>>
          ELSE SplitRuns(Head(toks), 1))
         \o NormWSTokens(Tail(toks))

\* one item of the result of the compiler: what the regex is (kind, text,
\* name, greedy), the offset of its source text and its rcount
Segment(kind, text, name, greedy, charno, rcount) ==
    [kind |-> kind, text |-> text, name |-> name, greedy |-> greedy,
     charno |-> charno, rcount |-> rcount]

\* the leading anchor \A
EmitBegin == Segment("begin", <<>>, None, FALSE, 0, 0)

\* the end anchor that carries the offset of the last character
EmitEnd_AtLastToken(kind, charno) ==
    Segment(kind, <<>>, None, FALSE, IF charno > 0 THEN charno - 1 ELSE 0, 0)

\* the end anchor, with the offset of the end of the string: \n*\Z, or
\* \s*\Z when white space is normalized
EmitEnd(kind, charno) == Segment(kind, <<>>, None, FALSE, charno, 0)

\* a literal run: the escaped literal, rcount = len(literal)
EmitLiteral(tok) ==
    Segment("lit", tok.text, None, FALSE, tok.charno, Len(tok.text))

\* a run of white space when white space is normalized: \s+(?!\s) (kind
\* "ws") or \s (kind "ws1"), rcount = 1
EmitWs(tok, kind) == Segment(kind, <<>>, None, FALSE, tok.charno, 1)

\* a tag: the kinds are "tag" (.*?), "tag_r" (.*?)(?<!\s) and "tag_opt"
\* (?:\s*(?!\s)(.+?)(?<!\s))?, capturing when the tag has a name; rcount = 0
EmitTag(tok, kind, greedy) ==
    LET name == NameOfTagOrNone(tok.text)
    IN  Segment(kind, <<>>, name, greedy /\ name = None, tok.charno, 0)

\* SM_NotNormWS: the segments of the tokens
RECURSIVE NotNormWSSegments(_)
NotNormWSSegments(toks) ==
    IF toks = <<>> THEN <<>>
    ELSE <<IF Head(toks).kind = "tag" THEN EmitTag(Head(toks), "tag", FALSE)
           ELSE EmitLiteral(Head(toks))>>
         \o NotNormWSSegments(Tail(toks))

\* the kind of token i of toks, "begin" before the first and "end" after
\* the last
KindAt(toks, i) ==
    IF i < 1 THEN "begin" ELSE IF i > Len(toks) THEN "end" ELSE toks[i].kind

\* SM_NormWS: the segment of token i, which depends on what is before and
\* after it
NormWSSegment(toks, i) ==
    LET tok == toks[i]
        before == KindAt(toks, i - 1)
        after == KindAt(toks, i + 1)
    IN  CASE tok.kind = "lit" -> EmitLiteral(tok)
          [] tok.kind = "ws" ->
                IF after = "tag" /\ KindAt(toks, i + 2) = "ws"
                THEN EmitWs(tok, "ws1") ELSE EmitWs(tok, "ws")
          [] tok.kind = "tag" ->
                IF before = "ws" /\ after = "ws"
                THEN EmitTag(tok, "tag_opt", TRUE)
                ELSE IF after \in {"ws", "end"}
                     THEN EmitTag(tok, "tag_r", after = "end")
                     ELSE EmitTag(tok, "tag", FALSE)

\* the shapes of expected string for which the rules of SM_NormWS say what
\* is emitted: it begins with a literal that is not white space, it ends
\* with one or with a tag that follows one, and no tag follows a tag
Determined(toks) ==
    IF toks = <<>> THEN TRUE
    ELSE /\ toks[1].kind = "lit"
         /\ KindAt(toks, Len(toks)) = "lit"
              \/ (KindAt(toks, Len(toks)) = "tag"
                  /\ KindAt(toks, Len(toks) - 1) = "lit")
         /\ \A i \in 1..(Len(toks) - 1) :
              ~(toks[i].kind = "tag" /\ toks[i + 1].kind = "tag")

\* sm.parse(expected, tags_enabled), the segments in order
Segments(expected_str, enabled, normalize) ==
    LET toks == Lex(expected_str, enabled)
    IN  IF normalize
        THEN LET runs == NormWSTokens(toks)
             IN  <<EmitBegin>>
                 \o [i \in 1..Len(runs) |-> NormWSSegment(runs, i)]
                 \o <<EmitEnd("end_s", Len(expected_str))>>
        ELSE <<EmitBegin>> \o NotNormWSSegments(toks)
             \o <<EmitEnd("end_n", Len(expected_str))>>

\* re.escape: a backslash before every character that is not a letter, a
\* digit or '_' (newer versions of Python leave some of the other characters
\* alone; the regex means the same)
RECURSIVE ReEscape(_)
ReEscape(text) ==
    IF text = <<>> THEN <<>>
    ELSE (IF Head(text) \in Letters \cup Digits \cup {"_"}
          THEN <<Head(text)>> ELSE <<"\\", Head(text)>>)
         \o ReEscape(Tail(text))

\* the text of the regex of a segment
Regex(seg) ==
    LET body == IF seg.kind = "tag_opt"
                THEN IF seg.greedy THEN <<".", "+">> ELSE <<".", "+", "?">>
                ELSE IF seg.greedy THEN <<".", "*">> ELSE <<".", "*", "?">>
        group == IF seg.name = None THEN <<"(", "?", ":">> \o body \o <<")">>
                 ELSE <<"(", "?", "P", "<">> \o TagNameAsRegexName(seg.name)
                      \o <<">">> \o body \o <<")">>
        not_after_ws == <<"(", "?", "<", "!", "\\", "s", ")">>
        not_before_ws == <<"(", "?", "!", "\\", "s", ")">>
    IN  CASE seg.kind = "begin" -> <<"\\", "A">>
          [] seg.kind = "lit" -> ReEscape(seg.text)
          [] seg.kind = "ws" -> <<"\\", "s", "+">> \o not_before_ws
          [] seg.kind = "ws1" -> <<"\\", "s">>
          [] seg.kind = "tag" -> group
          [] seg.kind = "tag_r" -> group \o not_after_ws
          [] seg.kind = "tag_opt" ->
                <<"(", "?", ":", "\\", "s", "*">> \o not_before_ws \o group
                \o not_after_ws \o <<")", "?">>
          [] seg.kind = "end_n" -> <<"\\", "n", "*", "\\", "Z">>
          [] seg.kind = "end_s" -> <<"\\", "s", "*", "\\", "Z">>

\* tags_by_idx: the names of the tags by their index in regexs, from 0
TagsByIdx(segs) ==
    LET tags == {i \in 1..Len(segs) :
                    segs[i].kind \in {"tag", "tag_r", "tag_opt"}}
    IN  [i \in {j - 1 : j \in tags} |-> segs[i + 1].name]

\* what sm.parse returns: regexs, charnos, rcounts and tags_by_idx, and the
\* segments they were made from
Returned(segs) ==
    [regexs |-> [i \in 1..Len(segs) |-> Regex(segs[i])],
     charnos |-> [i \in 1..Len(segs) |-> segs[i].charno],
     rcounts |-> [i \in 1..Len(segs) |-> segs[i].rcount],
     tags_by_idx |-> TagsByIdx(segs),
     segments |-> segs]

\* expected_as_regexs, had it made SM_NormWS whatever the flag
ExpectedAsRegexs_AlwaysNormWS(expected_str, enabled, normalize) ==
    Returned(Segments(expected_str, enabled, TRUE))

\* expected_as_regexs, had it made SM_NotNormWS whatever the flag
ExpectedAsRegexs_NeverNormWS(expected_str, enabled, normalize) ==
    Returned(Segments(expected_str, enabled, FALSE))

\* expected_as_regexs(expected, tags_enabled, normalize_whitespace): SM_NormWS
\* or SM_NotNormWS is made by the flag, and what its parse returns is returned
ExpectedAsRegexs(expected_str, enabled, normalize) ==
    Returned(Segments(expected_str, enabled, normalize))

\* text[a..b] is white space
AllSpace(text, a, b) == \A i \in a..b : text[i] \in ReSpace

\* (?!\s) and (?<!\s) at offset q of text
NotBeforeSpace(text, q) == q >= Len(text) \/ text[q + 1] \notin ReSpace
NotAfterSpace(text, q) == q = 0 \/ text[q] \notin ReSpace

\* the offsets of text where a match of the regex of seg that begins at
\* offset p can end, with the flags re.MULTILINE | re.DOTALL
MatchEnds(seg, text, p) ==
    LET n == Len(text)
    IN  CASE seg.kind = "begin" -> IF p = 0 THEN {0} ELSE {}
          [] seg.kind = "lit" ->
                IF /\ p + Len(seg.text) <= n
                   /\ SubSeq(text, p + 1, p + Len(seg.text)) = seg.text
                THEN {p + Len(seg.text)} ELSE {}
          [] seg.kind = "ws" ->
                {q \in (p + 1)..n :
                    AllSpace(text, p + 1, q) /\ NotBeforeSpace(text, q)}
          [] seg.kind = "ws1" ->
                IF p < n /\ text[p + 1] \in ReSpace THEN {p + 1} ELSE {}
          [] seg.kind = "tag" -> p..n
          [] seg.kind = "tag_r" -> {q \in p..n : NotAfterSpace(text, q)}
          [] seg.kind = "tag_opt" ->
                {p} \cup
                {q \in (p + 1)..n :
                    /\ NotAfterSpace(text, q)
                    /\ \E r \in p..(q - 1) :
                         AllSpace(text, p + 1, r) /\ NotBeforeSpace(text, r)}
          [] seg.kind = "end_n" ->
                IF \A i \in (p + 1)..n : text[i] = "\n" THEN {n} ELSE {}
          [] seg.kind = "end_s" ->
                IF AllSpace(text, p + 1, n) THEN {n} ELSE {}

\* the offsets where a match of the first k segments can end
RECURSIVE MatchedUpTo(_, _, _)
MatchedUpTo(segs, text, k) ==
    IF k = 0 THEN {0}
    ELSE UNION { MatchEnds(segs[k], text, p) :
                    p \in MatchedUpTo(segs, text, k - 1) }

\* re.compile(''.join(regexs), re.MULTILINE | re.DOTALL).match(text) is
\* not None
RegexsMatch(segs, text) == MatchedUpTo(segs, text, Len(segs)) # {}

\* the number of capturing groups of the regex rx, from index i on: the
\* length of m.groups()
RECURSIVE CaptureGroups(_, _)
CaptureGroups(rx, i) ==
    IF i > Len(rx) THEN 0
    ELSE IF rx[i] = "\\" THEN CaptureGroups(rx, i + 2)
    ELSE IF rx[i] = "("
         THEN (IF i < Len(rx) /\ rx[i + 1] = "?"
                  /\ ~(i + 2 <= Len(rx) /\ rx[i + 2] = "P")
               THEN 0 ELSE 1) + CaptureGroups(rx, i + 1)
    ELSE CaptureGroups(rx, i + 1)

\* ''.join(regexs)
RECURSIVE JoinRegexs(_)
JoinRegexs(regexs) ==
    IF regexs = <<>> THEN <<>> ELSE Head(regexs) \o JoinRegexs(Tail(regexs))

\* nothing returned yet
NotCompiled ==
    [regexs |-> <<>>, charnos |-> <<>>, rcounts |-> <<>>,
     tags_by_idx |-> <<>>, segments |-> <<>>]

\* the pieces the expected strings are made of: a letter, a space, a new
\* line, the unnamed tag and a named tag
ExpectedPieces ==
    { <<"a">>, <<" ">>, <<"\n">>, <<"<", ".", ".", ".", ">">>,
      <<"<", "f", "-", "g", ">">> }

\* the strings made of at most n pieces
RECURSIVE PiecesUpTo(_)
PiecesUpTo(n) ==
    IF n = 0 THEN {<<>>}
    ELSE LET shorter == PiecesUpTo(n - 1)
         IN  shorter \cup { s \o p : s \in shorter, p \in ExpectedPieces }

\* the number of named tags of an expected string
NamedTags(s) ==
    LET toks == Lex(s, TRUE)
    IN  Cardinality({i \in 1..Len(toks) :
                        /\ toks[i].kind = "tag"
                        /\ NameOfTagOrNone(toks[i].text) # None})

\* the expected strings: no named tag is used twice
ExpectedStrings == { s \in PiecesUpTo(MaxExpectedPieces) : NamedTags(s) <= 1 }

\* s followed by k new lines
RECURSIVE WithNewLines(_, _)
WithNewLines(s, k) ==
    IF k = 0 THEN s ELSE Append(WithNewLines(s, k - 1), "\n")

\* whether text is s followed by new lines only
IsWithNewLines(s, text) ==
    /\ Len(text) >= Len(s)
    /\ SubSeq(text, 1, Len(s)) = s
    /\ \A i \in (Len(s) + 1)..Len(text) : text[i] = "\n"

\* texts close to s: one character dropped, one character doubled, or one
\* character put after it
Edits(s) ==
    { SubSeq(s, 1, i - 1) \o SubSeq(s, i + 1, Len(s)) : i \in 1..Len(s) }
    \cup { SubSeq(s, 1, i) \o SubSeq(s, i, Len(s)) : i \in 1..Len(s) }
    \cup { Append(s, c) : c \in {"a", " "} }

\* the runs of white space put in the place of a run of white space
SpaceRuns ==
    { <<" ">>, <<"\n">>, <<"\t">>, <<" ", " ">>, <<"\n", " ">>,
      <<" ", "\t", "\n">> }

\* the texts got from the runs of a string by putting a run of white space
\* of SpaceRuns in the place of each of its runs of white space
RECURSIVE SpaceVariantsOf(_)
SpaceVariantsOf(runs) ==
    IF runs = <<>> THEN {<<>>}
    ELSE LET rest == SpaceVariantsOf(Tail(runs))
         IN  IF Head(runs).kind = "ws"
             THEN { r \o t : r \in SpaceRuns, t \in rest }
             ELSE { Head(runs).text \o t : t \in rest }

SpaceVariants(s) == SpaceVariantsOf(NormWSTokens(Lex(s, FALSE)))

\* the texts given to m.match for an expected string
Outputs(s, normalize) ==
    IF normalize THEN SpaceVariants(s)
    ELSE { WithNewLines(s, k) : k \in 0..MaxPad } \cup Edits(s)
-----------------------------------------------------------------------------
(* Initial state *)

\* get_examples_from_string is entered: all_examples = []
HarvestInit ==
    /\ all_examples = <<>>
    /\ hpc = "collect"
    /\ prev = NoExample
    /\ idx = 0
    /\ collision_free = FALSE
    /\ error = NoError
    /\ found_order = <<>>
    /\ sorted_input = <<>>
    /\ scans = 0
    /\ cmps = 0

\* ExampleParser.__init__: the options given hold the global scope
ParseInit ==
    /\ opt_stack = << DefaultOptions >>
    /\ ppc = "idle"
    /\ ex = NoParsedExample
    /\ concerns = "none"
    /\ perror = "none"
    /\ depth_before = 1
    /\ nparses = 0
    /\ opts_cache = {}
    /\ strict_runs = [ol \in OptLists |-> 0]

\* the runner is ready: initialize has returned and no call is in progress
RunInit ==
    /\ rpc = "ready"
    /\ op = "none"
    /\ ctx = "none"
    /\ opts = NoOptions
    /\ source = <<>>
    /\ lines = <<>>
    /\ prompt_re = "none"
    /\ timeout = 0
    /\ begin_elapsed = 0
    /\ sh_timeout = 0
    /\ silence_timeout = 0
    /\ sh_prev = 0
    /\ last_output = <<>>
    /\ buffer = <<>>
    /\ exc = NoExc
    /\ out = <<>>
    /\ result = NoResult
    /\ trace = <<>>
    /\ run_read = <<>>
    /\ spent = <<>>

\* PexpectMixin.__init__: no interpreter is spawned yet
GeometryInit ==
    /\ gpc = "unspawned"
    /\ terminal_default_geometry = NoGeometry
    /\ screen = NoGeometry
    /\ winsize = NoGeometry
    /\ geometry = NoGeometry
    /\ force = FALSE
    /\ need_change = FALSE
    /\ outcome = "none"
    /\ resizes = <<>>

\* no call of the finder is in progress
ExtractInit ==
    /\ xpc = "idle"
    /\ via = "none"
    /\ example_str = <<>>
    /\ indent = <<>>
    /\ where = NoWhere
    /\ new_match = NoMatch
    /\ xerror = NoXError
    /\ groups = <<>>
    /\ given = NoGiven

\* from_string_get_items_using is not called yet
CollectInit ==
    /\ cpc = "idle"
    /\ allowed_languages = {}
    /\ parser_by_language = {}
    /\ runner_by_language = {}
    /\ start_lineno = 0
    /\ match = NoCur
    /\ items = <<>>
    /\ drop_log = <<>>
    /\ seen = <<>>

\* human_exceptions has not been entered
ErrorsInit ==
    /\ epc = "idle"
    /\ verbosity = 0
    /\ quiet = FALSE
    /\ scopes = <<>>
    /\ flying = NoFlying
    /\ yielded = EmptyDict
    /\ printed = <<>>
    /\ born = NoFlying
    /\ born_in = <<>>

\* nothing has been read from the interpreter
TerminalInit ==
    /\ tpc = "reading"
    /\ terminal = "dumb"
    /\ received = <<>>
    /\ shown = <<>>
    /\ fed = <<>>

\* quote_and_substitute has not been called
ShebangInit ==
    /\ spc = "idle"
    /\ shebang = <<>>
    /\ tokens = NoTokens
    /\ cmd = <<>>
    /\ serror = "none"

\* get_examples_from_string has not been called
ZonesInit ==
    /\ zpc = "idle"
    /\ document = <<>>
    /\ zones = <<>>
    /\ zone_no = 0
    /\ examples = <<>>

\* expected_as_regexs has not been called
ExpectedInit ==
    /\ mpc = "idle"
    /\ expected = <<>>
    /\ tags_enabled = FALSE
    /\ normalize_whitespace = FALSE
    /\ compiled = NotCompiled
    /\ got = {}
    /\ matched = {}

Init ==
    /\ HarvestInit /\ ParseInit /\ RunInit /\ GeometryInit /\ ExtractInit
    /\ CollectInit /\ ErrorsInit /\ TerminalInit /\ ShebangInit
    /\ ZonesInit /\ ExpectedInit

-----------------------------------------------------------------------------
(* Harvester: actions *)

\* get_examples_from_string, lines 218-227: a finder found one more example
\* in a zone and it is added to all_examples
GetExamplesUsing ==
    /\ hpc = "collect"
    /\ Len(all_examples) < MaxExamples
    /\ \E c \in Candidates : all_examples' = Append(all_examples, c)
    /\ found_order' = all_examples'
    /\ UNCHANGED notH
    /\ UNCHANGED <<hpc, prev, idx, collision_free, error, sorted_input, scans, cmps>>

\* get_examples_from_string, lines 235-237, and check_example_overlap line 305
SortAndCheck ==
    /\ hpc = "collect"
    /\ all_examples' = SortExamples(all_examples)
    /\ sorted_input' = all_examples'
    /\ collision_free' = FALSE
    /\ hpc' = "while"
    /\ UNCHANGED notH
    /\ UNCHANGED <<prev, idx, error, found_order, scans, cmps>>

\* line 306, the loop condition is false: lines 349-362, return examples
WhileExit ==
    /\ hpc = "while"
    /\ collision_free
    /\ hpc' = "returned"
    /\ UNCHANGED notH
    /\ UNCHANGED <<all_examples, prev, idx, collision_free, error, found_order, sorted_input,
                   scans, cmps>>

\* lines 306-309: a scan of the empty list returns at once
WhileEmpty ==
    /\ hpc = "while"
    /\ ~collision_free
    /\ all_examples = <<>>
    /\ collision_free' = TRUE
    /\ scans' = scans + 1
    /\ cmps' = 0
    /\ hpc' = "returned"
    /\ UNCHANGED notH
    /\ UNCHANGED <<all_examples, prev, idx, error, found_order, sorted_input>>

\* lines 306-312: a new scan begins
WhileScan ==
    /\ hpc = "while"
    /\ ~collision_free
    /\ all_examples # <<>>
    /\ collision_free' = TRUE
    /\ prev' = all_examples[1]
    /\ idx' = 2
    /\ scans' = scans + 1
    /\ cmps' = 0
    /\ hpc' = "for"
    /\ UNCHANGED notH
    /\ UNCHANGED <<all_examples, error, found_order, sorted_input>>

\* line 312: the for loop is exhausted
ForExhausted ==
    /\ hpc = "for"
    /\ idx > Len(all_examples)
    /\ hpc' = "while"
    /\ UNCHANGED notH
    /\ UNCHANGED <<all_examples, prev, idx, collision_free, error, found_order, sorted_input,
                   scans, cmps>>

\* lines 313-323: no collision, the scan goes on
ForNoCollision ==
    /\ hpc = "for"
    /\ idx <= Len(all_examples)
    /\ ~AnyCollision(prev, all_examples[idx])
    /\ prev' = all_examples[idx]
    /\ idx' = idx + 1
    /\ cmps' = cmps + 1
    /\ UNCHANGED notH
    /\ UNCHANGED <<all_examples, hpc, collision_free, error, found_order, sorted_input, scans>>

\* lines 313-340: a Type 2 collision drops the inner example and breaks
ForDrop ==
    /\ hpc = "for"
    /\ idx <= Len(all_examples)
    /\ AnyCollision(prev, all_examples[idx])
    /\ CollisionType2(prev, all_examples[idx])
    /\ collision_free' = FALSE
    /\ all_examples' = DelAt(all_examples, idx)
    /\ cmps' = cmps + 1
    /\ hpc' = "while"
    /\ UNCHANGED notH
    /\ UNCHANGED <<prev, idx, error, found_order, sorted_input, scans>>

\* lines 313-347: any other collision raises ValueError
ForRaise ==
    /\ hpc = "for"
    /\ idx <= Len(all_examples)
    /\ AnyCollision(prev, all_examples[idx])
    /\ ~CollisionType2(prev, all_examples[idx])
    /\ collision_free' = FALSE
    /\ error' = OverlapError(prev, all_examples[idx])
    /\ cmps' = cmps + 1
    /\ hpc' = "raised"
    /\ UNCHANGED notH
    /\ UNCHANGED <<all_examples, prev, idx, found_order, sorted_input, scans>>

HarvestNext ==
    \/ GetExamplesUsing
    \/ SortAndCheck
    \/ WhileExit
    \/ WhileEmpty
    \/ WhileScan
    \/ ForExhausted
    \/ ForNoCollision
    \/ ForDrop
    \/ ForRaise

SpecHarvest == Init /\ [][HarvestNext]_vars

-----------------------------------------------------------------------------
(* Parser: actions *)

\* the examples parse_yourself may be called on: one the finder has just
\* built, or the one it was called on last; line 89 lets it reach the parser
Incoming ==
    { e \in { FreshExample(nparses + 1, sn, ol, es) :
                 sn \in Snippets, ol \in OptLists, es \in ExpectedStrs }
             \cup (IF ppc \in {"returned", "raised"} /\ ex.id # 0
                   THEN {ex} ELSE {}) :
        MayParse(e) }

\* the failed strict parse, had parse pushed the option scope before it
\* extracted the options
ParseExtractFails_AfterUp ==
    /\ ppc \in {"idle", "returned", "raised"}
    /\ nparses < MaxParses
    /\ \E e \in Incoming, c \in {"none", "quiet", "failing"} :
        /\ CacheMiss(opts_cache, e.optlist)
        /\ Unrecognized(e.optlist)
        /\ ex' = e
        /\ concerns' = c
        /\ strict_runs' = [strict_runs EXCEPT ![e.optlist] = @ + 1]
    /\ depth_before' = Len(opt_stack)
    /\ nparses' = nparses + 1
    /\ perror' = "ValueError"
    /\ ppc' = "raised"
    /\ opt_stack' = OptionsUp(opt_stack, DefaultOptions)
    /\ UNCHANGED opts_cache
    /\ UNCHANGED notP

\* parse_yourself calls parse; parser.py lines 97-99: the option list is not
\* in the cache and the strict parse raises ValueError on an option that is
\* not recognized, before options.up; nothing is cached
ParseExtractFails ==
    /\ ppc \in {"idle", "returned", "raised"}
    /\ nparses < MaxParses
    /\ \E e \in Incoming, c \in {"none", "quiet", "failing"} :
        /\ CacheMiss(opts_cache, e.optlist)
        /\ Unrecognized(e.optlist)
        /\ ex' = e
        /\ concerns' = c
        /\ strict_runs' = [strict_runs EXCEPT ![e.optlist] = @ + 1]
    /\ depth_before' = Len(opt_stack)
    /\ nparses' = nparses + 1
    /\ perror' = "ValueError"
    /\ ppc' = "raised"
    /\ UNCHANGED <<opt_stack, opts_cache>>
    /\ UNCHANGED notP

\* parse_yourself calls parse; parser.py lines 97-100: the options of the
\* example are taken from the cache, or parsed strictly and cached, and
\* pushed
ParseExtractAndUp ==
    /\ ppc \in {"idle", "returned", "raised"}
    /\ nparses < MaxParses
    /\ \E e \in Incoming, c \in {"none", "quiet", "failing"} :
        /\ ex' = e
        /\ concerns' = c
        /\ IF CacheMiss(opts_cache, e.optlist)
           THEN /\ ~Unrecognized(e.optlist)
                /\ opts_cache' = CachePut(opts_cache, e.optlist,
                                          ParseOptionsStrictly(e.optlist))
                /\ strict_runs' = [strict_runs EXCEPT ![e.optlist] = @ + 1]
                /\ opt_stack' = OptionsUp(opt_stack,
                                          ParseOptionsStrictly(e.optlist))
           ELSE /\ opt_stack' = OptionsUp(opt_stack,
                                          CacheGet(opts_cache, e.optlist))
                /\ UNCHANGED <<opts_cache, strict_runs>>
    /\ depth_before' = Len(opt_stack)
    /\ nparses' = nparses + 1
    /\ perror' = "none"
    /\ ppc' = "pushed"
    /\ UNCHANGED notP

\* finder.py lines 89-91: parse_yourself is called on an example that is
\* parsed already; the parser is not called
ParseYourselfTwice ==
    /\ ppc \in {"returned", "raised"}
    /\ ex.id # 0
    /\ ~MayParse(ex)
    /\ perror' = "ParsedTwice"
    /\ ppc' = "raised"
    /\ UNCHANGED <<opt_stack, ex, concerns, depth_before, nparses, opts_cache,
                   strict_runs>>
    /\ UNCHANGED notP

\* lines 102-107: process_snippet_and_expected, example.options
ParseProcess ==
    /\ ppc = "pushed"
    /\ ex' = [ex EXCEPT !.source = <<ProcessSnippet(ex.snippet)>>,
                        !.options = <<opt_stack[Len(opt_stack)]>>]
    /\ ppc' = "processed"
    /\ UNCHANGED <<opt_stack, concerns, perror, depth_before, nparses, opts_cache,
                   strict_runs>>
    /\ UNCHANGED notP

\* lines 109-110: there are no concerns, or before_build_regex returns
ParseBeforeBuildRegex ==
    /\ ppc = "processed"
    /\ concerns \in {"none", "quiet"}
    /\ ppc' = "hooked"
    /\ UNCHANGED <<opt_stack, ex, concerns, perror, depth_before, nparses,
                   opts_cache, strict_runs>>
    /\ UNCHANGED notP

\* lines 109-110: before_build_regex raises and the exception leaves parse
ParseBeforeBuildRegexRaises ==
    /\ ppc = "processed"
    /\ concerns = "failing"
    /\ perror' = "HookError"
    /\ ppc' = "raised"
    /\ UNCHANGED <<opt_stack, ex, concerns, depth_before, nparses, opts_cache,
                   strict_runs>>
    /\ UNCHANGED notP

\* lines 112-144: the rm option is applied and the expected is compiled
ParseCompile ==
    /\ ppc = "hooked"
    /\ LET str == RemoveAll(ex.expected_str, OptionsGet(opt_stack, "rm"))
       IN  ex' = [ex EXCEPT !.expected_str = str,
                            !.expected = << [str |-> str,
                                             tags |-> OptionsGet(opt_stack, "tags"),
                                             norm_ws |-> OptionsGet(opt_stack, "norm_ws")] >>]
    /\ ppc' = "compiled"
    /\ UNCHANGED <<opt_stack, concerns, perror, depth_before, nparses, opts_cache,
                   strict_runs>>
    /\ UNCHANGED notP

\* lines 146-147: options.down() and return; finder.py lines 95-97:
\* parse_yourself sets fully_parsed
ParseDown ==
    /\ ppc = "compiled"
    /\ opt_stack' = OptionsDown(opt_stack)
    /\ ex' = [ex EXCEPT !.fully_parsed = TRUE]
    /\ ppc' = "returned"
    /\ UNCHANGED <<concerns, perror, depth_before, nparses, opts_cache,
                   strict_runs>>
    /\ UNCHANGED notP

ParseNext ==
    \/ ParseExtractFails
    \/ ParseExtractAndUp
    \/ ParseYourselfTwice
    \/ ParseProcess
    \/ ParseBeforeBuildRegex
    \/ ParseBeforeBuildRegexRaises
    \/ ParseCompile
    \/ ParseDown

SpecParse == Init /\ [][ParseNext]_vars

-----------------------------------------------------------------------------
(* Runner: actions *)

\* ShellInterpreter._expect_prompt(options, t, re) is entered by `who`
\* (modules/shell.py lines 146-149); tr is the history so far
EnterExpectPrompt(who, o, t, re, tr) ==
    /\ ctx' = who
    /\ prompt_re' = re
    /\ sh_timeout' = t
    /\ silence_timeout' = IF o.stop_on_silence # False_ THEN o.stop_on_silence ELSE 0
    /\ sh_prev' = 0
    /\ begin_elapsed' = 0
    /\ trace' = Append(tr, Event("expect_prompt", <<>>, re, t, ""))
    /\ rpc' = "expect"

\* a faulty _expect_prompt without `timeout = max(timeout, 0)`
ExpectTimeoutOf_Unclamped ==
    IF opts.stop_on_silence # False_ THEN silence_timeout ELSE sh_timeout

\* the timeout PexpectMixin._expect_prompt hands to interpreter.expect
\* (modules/shell.py lines 153 and 169, runner.py line 247)
ExpectTimeoutOf ==
    Max(IF opts.stop_on_silence # False_ THEN silence_timeout ELSE sh_timeout, 0)

\* _exec_and_wait, lines 150-158: any prompt is waited for after every piece
\* but the last, the primary prompt after the last; ls holds the pieces not
\* sent yet, the one being sent included
PromptAfter_AlwaysAny(ls) == "any_PS"

PromptAfter(ls) == IF Len(ls) > 1 THEN "any_PS" ELSE "PS1"

\* _run_impl, lines 122-127: must a timeout stop the process
StopEnabled_TimeoutOnly(o) == o.stop_on_timeout

StopEnabled(o) == o.stop_on_timeout \/ o.stop_on_silence # False_

\* the locals of a call are gone when it has returned or raised
CallEnds ==
    /\ rpc' = "done"
    /\ ctx' = "none"
    /\ lines' = <<>>
    /\ prompt_re' = "none"
    /\ timeout' = 0
    /\ begin_elapsed' = 0
    /\ sh_timeout' = 0
    /\ silence_timeout' = 0
    /\ sh_prev' = 0
    /\ out' = <<>>

\* run(example, options) -> _run -> _run_impl -> _exec_and_wait, lines 145-149
RunCall ==
    /\ rpc = "ready"
    /\ \E s \in Sources, o \in RunOptions :
        /\ opts' = o
        /\ source' = s
        /\ timeout' = o.timeout
        /\ lines' = SplitOn(s, "\n")
    /\ op' = "run"
    /\ rpc' = "send"
    /\ exc' = NoExc
    /\ result' = NoResult
    /\ trace' = <<>>
    /\ run_read' = <<>>
    /\ UNCHANGED <<ctx, prompt_re, begin_elapsed, sh_timeout, silence_timeout,
                   sh_prev, last_output, buffer, out>>
    /\ spent' = <<>>
    /\ UNCHANGED notR

\* _exec_and_wait, lines 150-154 and 157-158: the next piece is sent and the
\* prompt is waited for, any prompt after every piece but the last
ExecSendLine ==
    /\ rpc = "send"
    /\ lines' = Tail(lines)
    /\ EnterExpectPrompt("exec", opts, timeout,
                         PromptAfter(lines),
                         Append(trace, Event("sendline", Head(lines), "", 0, "")))
    /\ UNCHANGED <<op, opts, source, timeout, last_output, buffer, exc, out, result,
                   run_read>>
    /\ UNCHANGED spent
    /\ UNCHANGED notR

\* PexpectMixin._expect_prompt, lines 243-258: the prompt is found within the
\* timeout; the text before it is collected
ExpectFoundWithin(late) ==
    /\ rpc = "expect"
    /\ \E c \in Chunks, e \in 0..(ExpectTimeoutOf + late) :
        /\ last_output' = Append(last_output, buffer \o c)
        /\ run_read' = Append(run_read, buffer \o c)
        /\ begin_elapsed' = begin_elapsed + e
    /\ buffer' = <<>>
    /\ trace' = Append(trace, Event("expect", <<>>, prompt_re, ExpectTimeoutOf, "found"))
    /\ rpc' = "found"
    /\ UNCHANGED <<op, ctx, opts, source, lines, prompt_re, timeout, sh_timeout,
                   silence_timeout, sh_prev, exc, out, result>>
    /\ UNCHANGED spent
    /\ UNCHANGED notR

ExpectFound == ExpectFoundWithin(0)

\* the same, when time.time() - begin of the caller, which is measured around
\* the call, is up to MaxOverrun ticks more than the timeout of the expect
ExpectFoundLate == ExpectFoundWithin(MaxOverrun)

\* PexpectMixin._expect_prompt, lines 243-262: the timeout expires; the text
\* read stays in the buffer of pexpect, is collected too, and the exception
\* carries the output of _get_output, which empties last_output; the
\* interpreter prints nothing more once MaxPending chunks wait in the buffer
ExpectTimeout ==
    /\ rpc = "expect"
    /\ \E c \in Chunks :
        /\ Len(buffer \o c) <= MaxPending * MaxChunkLen
        /\ buffer' = buffer \o c
        /\ exc' = [kind |-> "TimeoutException",
                   output |-> GetOutput(opts.term, Append(last_output, buffer \o c)),
                   before |-> buffer \o c]
    /\ last_output' = <<>>
    /\ begin_elapsed' = begin_elapsed + ExpectTimeoutOf
    /\ trace' = Append(trace, Event("expect", exc'.output, prompt_re, ExpectTimeoutOf,
                                    "timeout"))
    /\ rpc' = "timeout"
    /\ UNCHANGED <<op, ctx, opts, source, lines, prompt_re, timeout, sh_timeout,
                   silence_timeout, sh_prev, out, result, run_read>>
    /\ UNCHANGED spent
    /\ UNCHANGED notR

\* ShellInterpreter._expect_prompt, line 169: without stop_on_silence the
\* exception leaves _expect_prompt
ExpectPromptRaises ==
    /\ rpc = "timeout"
    /\ opts.stop_on_silence = False_
    /\ rpc' = "raised"
    /\ UNCHANGED <<op, ctx, opts, source, lines, prompt_re, timeout, begin_elapsed,
                   sh_timeout, silence_timeout, sh_prev, last_output, buffer, exc,
                   out, result, trace, run_read>>
    /\ UNCHANGED spent
    /\ UNCHANGED notR

\* what lines 155-156 leave in `timeout` and `silence_timeout`
SilenceTimeoutLeft == sh_timeout - Max(ExpectTimeoutOf, 0)
SilenceNext == Min(silence_timeout, SilenceTimeoutLeft)

\* a loop that goes on while there is time left, idle or not
SilenceGivesUp_NoIdle ==
    \/ SilenceTimeoutLeft <= 0
    \/ SilenceNext <= 0

\* lines 158-164: a real timeout, or silence
SilenceGivesUp ==
    \/ SilenceTimeoutLeft <= 0
    \/ SilenceNext <= 0
    \/ sh_prev >= Len(exc.output)

\* ShellInterpreter._expect_prompt, lines 154-166: more output came since the
\* last timeout and there is time left, the loop goes on
SilenceRetry ==
    /\ rpc = "timeout"
    /\ opts.stop_on_silence # False_
    /\ ~SilenceGivesUp
    /\ sh_timeout' = SilenceTimeoutLeft
    /\ silence_timeout' = SilenceNext
    /\ sh_prev' = Len(exc.output)
    /\ rpc' = "expect"
    /\ UNCHANGED <<op, ctx, opts, source, lines, prompt_re, timeout, begin_elapsed,
                   last_output, buffer, exc, out, result, trace, run_read>>
    /\ UNCHANGED spent
    /\ UNCHANGED notR

\* ShellInterpreter._expect_prompt, lines 154-164: the exception is raised again
SilenceRaises ==
    /\ rpc = "timeout"
    /\ opts.stop_on_silence # False_
    /\ SilenceGivesUp
    /\ sh_timeout' = SilenceTimeoutLeft
    /\ silence_timeout' = SilenceNext
    /\ rpc' = "raised"
    /\ UNCHANGED <<op, ctx, opts, source, lines, prompt_re, timeout, begin_elapsed,
                   sh_prev, last_output, buffer, exc, out, result, trace,
                   run_read>>
    /\ UNCHANGED spent
    /\ UNCHANGED notR

\* _exec_and_wait, line 155: the time spent is taken from the timeout and the
\* loop goes on with the next piece
ExecNextLine ==
    /\ rpc = "found"
    /\ ctx = "exec"
    /\ lines # <<>>
    /\ timeout' = timeout - Max(begin_elapsed, 0)
    /\ rpc' = "send"
    /\ UNCHANGED <<op, ctx, opts, source, lines, prompt_re, begin_elapsed, sh_timeout,
                   silence_timeout, sh_prev, last_output, buffer, exc, out,
                   result, trace, run_read>>
    /\ spent' = Append(spent, Max(begin_elapsed, 0))
    /\ UNCHANGED notR

\* _exec_and_wait, line 160, and _run_impl line 125: run returns the output
ExecReturns ==
    /\ rpc = "found"
    /\ op = "run"
    /\ ctx = "exec"
    /\ lines = <<>>
    /\ result' = [kind |-> "returned", output |-> GetOutput(opts.term, last_output),
                  value |-> "none"]
    /\ last_output' = <<>>
    /\ CallEnds
    /\ UNCHANGED <<op, opts, source, buffer, exc, trace, run_read>>
    /\ UNCHANGED spent
    /\ UNCHANGED notR

\* _run_impl, lines 126-140: the timeout is caught, ctrl-Z is sent and the
\* primary prompt is waited for
RunImplStops ==
    /\ rpc = "raised"
    /\ op = "run"
    /\ ctx = "exec"
    /\ StopEnabled(opts)
    /\ out' = exc.output
    /\ EnterExpectPrompt("ctrlz", opts, DflTimeout, "PS1",
                         Append(trace, Event("sendcontrol", <<"z">>, "", 0, "")))
    /\ UNCHANGED <<op, opts, source, lines, timeout, last_output, buffer, exc, result,
                   run_read>>
    /\ UNCHANGED spent
    /\ UNCHANGED notR

\* _run_impl, lines 126-127 and 144: the timeout is raised again
RunImplReraises ==
    /\ rpc = "raised"
    /\ op = "run"
    /\ ctx = "exec"
    /\ ~StopEnabled(opts)
    /\ result' = [kind |-> "TimeoutException", output |-> exc.output, value |-> "none"]
    /\ CallEnds
    /\ UNCHANGED <<op, opts, source, last_output, buffer, exc, trace, run_read>>
    /\ UNCHANGED spent
    /\ UNCHANGED notR

\* _run_impl, lines 137-140: the wait after ctrl-Z times out too, and this
\* second exception leaves run
RunImplStopFails ==
    /\ rpc = "raised"
    /\ ctx = "ctrlz"
    /\ result' = [kind |-> "TimeoutException", output |-> exc.output, value |-> "none"]
    /\ CallEnds
    /\ UNCHANGED <<op, opts, source, last_output, buffer, exc, trace, run_read>>
    /\ UNCHANGED spent
    /\ UNCHANGED notR

\* _run_impl, lines 142-143: the output read meanwhile is dropped and the
\* output of the timeout is returned
RunImplReturnsOut ==
    /\ rpc = "found"
    /\ ctx = "ctrlz"
    /\ last_output' = <<>>
    /\ result' = [kind |-> "returned", output |-> out, value |-> "none"]
    /\ CallEnds
    /\ UNCHANGED <<op, opts, source, buffer, exc, trace, run_read>>
    /\ UNCHANGED spent
    /\ UNCHANGED notR

\* cancel(example, options) -> _abort, lines 333-341: ctrl-C is sent and the
\* primary prompt is waited for
CancelCall ==
    /\ rpc = "ready"
    /\ \E o \in RunOptions :
        /\ opts' = o
        /\ EnterExpectPrompt("abort", o, DflTimeout, "PS1",
                             <<Event("sendcontrol", <<"c">>, "", 0, "")>>)
    /\ op' = "cancel"
    /\ source' = <<>>
    /\ exc' = NoExc
    /\ result' = NoResult
    /\ run_read' = <<>>
    /\ UNCHANGED <<lines, timeout, last_output, buffer, out>>
    /\ spent' = <<>>
    /\ UNCHANGED notR

\* a faulty _abort that leaves the text read before the prompt in last_output
AbortSucceeds_NoDrop ==
    /\ rpc = "found"
    /\ ctx = "abort"
    /\ result' = [kind |-> "returned", output |-> <<>>, value |-> "True"]
    /\ CallEnds
    /\ UNCHANGED <<op, opts, source, last_output, buffer, exc, trace, run_read>>
    /\ UNCHANGED spent
    /\ UNCHANGED notR

\* _abort, lines 342-343
AbortSucceeds ==
    /\ rpc = "found"
    /\ ctx = "abort"
    /\ last_output' = <<>>
    /\ result' = [kind |-> "returned", output |-> <<>>, value |-> "True"]
    /\ CallEnds
    /\ UNCHANGED <<op, opts, source, buffer, exc, trace, run_read>>
    /\ UNCHANGED spent
    /\ UNCHANGED notR

\* a faulty _abort that returns True when the wait timed out
AbortFails_ReturnsTrue ==
    /\ rpc = "raised"
    /\ ctx = "abort"
    /\ last_output' = <<>>
    /\ result' = [kind |-> "returned", output |-> <<>>, value |-> "True"]
    /\ CallEnds
    /\ UNCHANGED <<op, opts, source, buffer, exc, trace, run_read>>
    /\ UNCHANGED spent
    /\ UNCHANGED notR

\* a faulty _abort without the except clause
AbortFails_Propagates ==
    /\ rpc = "raised"
    /\ ctx = "abort"
    /\ result' = [kind |-> "TimeoutException", output |-> exc.output, value |-> "none"]
    /\ CallEnds
    /\ UNCHANGED <<op, opts, source, last_output, buffer, exc, trace, run_read>>
    /\ UNCHANGED spent
    /\ UNCHANGED notR

\* _abort, lines 344-346
AbortFails ==
    /\ rpc = "raised"
    /\ ctx = "abort"
    /\ last_output' = <<>>
    /\ result' = [kind |-> "returned", output |-> <<>>, value |-> "False"]
    /\ CallEnds
    /\ UNCHANGED <<op, opts, source, buffer, exc, trace, run_read>>
    /\ UNCHANGED spent
    /\ UNCHANGED notR

\* run (modules/shell.py lines 118-119) or cancel (lines 193-194) hands its
\* result to the caller; the runner is ready for the next call
CallerResumes ==
    /\ rpc = "done"
    /\ rpc' = "ready"
    /\ op' = "none"
    /\ opts' = NoOptions
    /\ source' = <<>>
    /\ exc' = NoExc
    /\ result' = NoResult
    /\ trace' = <<>>
    /\ run_read' = <<>>
    /\ UNCHANGED <<ctx, lines, prompt_re, timeout, begin_elapsed, sh_timeout,
                   silence_timeout, sh_prev, last_output, buffer, out>>
    /\ spent' = <<>>
    /\ UNCHANGED notR

RunNext ==
    \/ RunCall
    \/ ExecSendLine
    \/ ExpectFound
    \/ ExpectTimeout
    \/ ExpectPromptRaises
    \/ SilenceRetry
    \/ SilenceRaises
    \/ ExecNextLine
    \/ ExecReturns
    \/ RunImplStops
    \/ RunImplReraises
    \/ RunImplStopFails
    \/ RunImplReturnsOut
    \/ CancelCall
    \/ AbortSucceeds
    \/ AbortFails
    \/ CallerResumes

SpecRun == Init /\ [][RunNext]_vars

\* initialize(options), modules/shell.py lines 173-186: _spawn_interpreter
\* drops the output and starts a new interpreter without waiting for its
\* prompt, then _exec_and_wait sends the four lines that set the prompts,
\* with the default timeout; options['timeout'] and
\* options['stop_on_timeout'] are not read
InitializeCall ==
    /\ rpc = "ready"
    /\ \E o \in InitializeOptions : opts' = o
    /\ op' = "initialize"
    /\ source' = InitializeSource
    /\ timeout' = DflTimeout
    /\ lines' = SplitOn(InitializeSource, "\n")
    /\ last_output' = <<>>
    /\ buffer' = <<>>
    /\ rpc' = "send"
    /\ exc' = NoExc
    /\ result' = NoResult
    /\ trace' = <<>>
    /\ run_read' = <<>>
    /\ UNCHANGED <<ctx, prompt_re, begin_elapsed, sh_timeout, silence_timeout,
                   sh_prev, out>>
    /\ spent' = <<>>
    /\ UNCHANGED notR

\* initialize, lines 180-188: _exec_and_wait returns the output, which is
\* not used, and the output is dropped once more
InitializeReturns ==
    /\ rpc = "found"
    /\ op = "initialize"
    /\ ctx = "exec"
    /\ lines = <<>>
    /\ result' = [kind |-> "returned", output |-> <<>>, value |-> "none"]
    /\ last_output' = <<>>
    /\ CallEnds
    /\ UNCHANGED <<op, opts, source, buffer, exc, trace, run_read>>
    /\ UNCHANGED spent
    /\ UNCHANGED notR

\* initialize, lines 180-186: a timeout of _exec_and_wait leaves initialize
InitializeRaises ==
    /\ rpc = "raised"
    /\ op = "initialize"
    /\ ctx = "exec"
    /\ result' = [kind |-> "TimeoutException", output |-> exc.output, value |-> "none"]
    /\ CallEnds
    /\ UNCHANGED <<op, opts, source, last_output, buffer, exc, trace, run_read>>
    /\ UNCHANGED spent
    /\ UNCHANGED notR

\* a runner that is initialized, runs examples and cancels them
PtyNext ==
    \/ InitializeCall
    \/ InitializeReturns
    \/ InitializeRaises
    \/ RunNext

SpecPty == Init /\ [][PtyNext]_vars

\* run, with calls of _expect_prompt that take longer than the timeout they
\* were given
BudgetNext ==
    \/ RunCall
    \/ ExecSendLine
    \/ ExpectFoundLate
    \/ ExpectTimeout
    \/ ExpectPromptRaises
    \/ SilenceRetry
    \/ SilenceRaises
    \/ ExecNextLine
    \/ ExecReturns
    \/ RunImplStops
    \/ RunImplReraises
    \/ RunImplStopFails
    \/ RunImplReturnsOut
    \/ CallerResumes

SpecBudget == Init /\ [][BudgetNext]_vars
-----------------------------------------------------------------------------
(* Terminal emulation: actions *)

\* runner.py lines 257-258: an expect reads a text and _expect_prompt
\* appends it to self.last_output
TermRead ==
    /\ tpc = "reading"
    /\ \E c \in TextsUpTo(MaxOutputLen - Len(Concat(received))) \ {<<>>} :
        received' = Append(received, c)
    /\ UNCHANGED <<tpc, terminal, shown, fed>>
    /\ UNCHANGED notT

\* runner.py lines 265-276: _get_output emulates the terminal of
\* options['term'] on last_output, drops last_output and returns the text
TermGetOutput ==
    /\ tpc = "reading"
    /\ \E t \in {"dumb", "as-is"} :
        /\ terminal' = t
        /\ shown' = GetOutput(t, received)
    /\ fed' = received
    /\ received' = <<>>
    /\ tpc' = "shown"
    /\ UNCHANGED notT

\* the caller has taken the text; the next example is run
TermNextExample ==
    /\ tpc = "shown"
    /\ tpc' = "reading"
    /\ terminal' = "dumb"
    /\ shown' = <<>>
    /\ fed' = <<>>
    /\ UNCHANGED received
    /\ UNCHANGED notT

TerminalNext ==
    \/ TermRead
    \/ TermGetOutput
    \/ TermNextExample

SpecTerminal == Init /\ [][TerminalNext]_vars
-----------------------------------------------------------------------------
(* Shebang templates: actions *)

\* common.py lines 262-320: quote_and_substitute returns the command
ShebangReturns ==
    /\ spc = "idle"
    /\ \E tpl \in TemplatesUpTo(MaxTemplatePieces), toks \in TokenSets :
        LET r == QuoteAndSubstitute(tpl, toks)
        IN  /\ r.error = "none"
            /\ shebang' = tpl
            /\ tokens' = toks
            /\ cmd' = r.value
    /\ serror' = "none"
    /\ spc' = "returned"
    /\ UNCHANGED notS

\* common.py lines 306-312: shlex.split or substitute raises
ShebangRaises ==
    /\ spc = "idle"
    /\ \E tpl \in TemplatesUpTo(MaxTemplatePieces), toks \in TokenSets :
        LET r == QuoteAndSubstitute(tpl, toks)
        IN  /\ r.error # "none"
            /\ shebang' = tpl
            /\ tokens' = toks
            /\ serror' = r.error
    /\ cmd' = <<>>
    /\ spc' = "raised"
    /\ UNCHANGED notS

\* the runner goes on
ShebangDone ==
    /\ spc \in {"returned", "raised"}
    /\ spc' = "idle"
    /\ shebang' = <<>>
    /\ tokens' = NoTokens
    /\ cmd' = <<>>
    /\ serror' = "none"
    /\ UNCHANGED notS

ShebangNext ==
    \/ ShebangReturns
    \/ ShebangRaises
    \/ ShebangDone

SpecShebang == Init /\ [][ShebangNext]_vars
-----------------------------------------------------------------------------
(* Zones and line numbers: actions *)

\* finder.py lines 196-209: get_examples_from_string gets the zones of the
\* document with start_lineno=1; get_zone builds each from the group 'zone'
ZonesFoundIn(docs) ==
    /\ zpc = "idle"
    /\ \E doc \in docs :
        \E ms \in ZoneMatchLists(0, Len(doc)) :
            /\ document' = doc
            /\ zones' = [i \in 1..Len(ms) |->
                           [str |-> GetZone(doc, ms[i]),
                            where |-> FromStringGetWheres(doc, ms, 1)[i],
                            at |-> [start |-> ms[i].start, end |-> ms[i].end],
                            text_at |-> ms[i].from]]
    /\ zone_no' = 0
    /\ examples' = <<>>
    /\ zpc' = "zones"
    /\ UNCHANGED notZ

FindZones == ZonesFoundIn(DocsUpTo(MaxDocLen))

\* the same, for a document with indented lines
FindIndentedZones == ZonesFoundIn(IndentedDocsUpTo(MaxIndentedLen))

\* finder.py lines 218-226: the next zone is searched by a finder, with
\* zone.str and zone.where.start_lineno; get_example hands every match and
\* its `where` to get_snippet_and_expected, where check_and_remove_indent may
\* move where.end_lineno (`built`) or raise (`err`)
FindExamplesInZone ==
    /\ zpc \in {"zones", "examples"}
    /\ zone_no < Len(zones)
    /\ LET zone == zones[zone_no + 1]
       IN  \E ms \in MatchLists(0, Len(zone.str)) :
             examples' = [i \in 1..Len(ms) |->
                            LET w == FromStringGetWheres(
                                         zone.str, ms,
                                         zone.where.start_lineno)[i]
                                r == IndentChecked(
                                         Slice(zone.str, ms[i].start,
                                               ms[i].end), w)
                            IN  [where |-> w, at |-> ms[i],
                                 built |-> r.where, err |-> r.err]]
    /\ zone_no' = zone_no + 1
    /\ zpc' = "examples"
    /\ UNCHANGED <<document, zones>>
    /\ UNCHANGED notZ

\* finder.py lines 219-229: no zone is left
FindExamplesEnds ==
    /\ zpc \in {"zones", "examples"}
    /\ zone_no = Len(zones)
    /\ zpc' = "done"
    /\ UNCHANGED <<document, zones, zone_no, examples>>
    /\ UNCHANGED notZ

\* the next document
NextDocument ==
    /\ zpc = "done"
    /\ zpc' = "idle"
    /\ document' = <<>>
    /\ zones' = <<>>
    /\ zone_no' = 0
    /\ examples' = <<>>
    /\ UNCHANGED notZ

ZonesNext ==
    \/ FindZones
    \/ FindExamplesInZone
    \/ FindExamplesEnds
    \/ NextDocument

SpecZones == Init /\ [][ZonesNext]_vars

IndentedNext ==
    \/ FindIndentedZones
    \/ FindExamplesInZone
    \/ FindExamplesEnds
    \/ NextDocument

SpecIndented == Init /\ [][IndentedNext]_vars
-----------------------------------------------------------------------------
(* Expected-output compiler: actions *)

\* parser.py lines 205-215: expected_as_regexs makes SM_NormWS or
\* SM_NotNormWS and returns what its parse returns
Compile ==
    /\ mpc = "idle"
    /\ \E s \in ExpectedStrings, enabled \in BOOLEAN, normalize \in BOOLEAN :
        /\ normalize => Determined(NormWSTokens(Lex(s, enabled)))
        /\ expected' = s
        /\ tags_enabled' = enabled
        /\ normalize_whitespace' = normalize
        /\ compiled' = ExpectedAsRegexs(s, enabled, normalize)
    /\ mpc' = "compiled"
    /\ UNCHANGED <<got, matched>>
    /\ UNCHANGED notM

\* parser.py lines 176-178: the regexs are joined, compiled with
\* re.MULTILINE | re.DOTALL and each of the texts is given to m.match
Match ==
    /\ mpc = "compiled"
    /\ LET texts == Outputs(expected, normalize_whitespace)
       IN  /\ got' = texts
           /\ matched' = {t \in texts : RegexsMatch(compiled.segments, t)}
    /\ mpc' = "matched"
    /\ UNCHANGED <<expected, tags_enabled, normalize_whitespace, compiled>>
    /\ UNCHANGED notM

\* the next expected string
NextExpected ==
    /\ mpc = "matched"
    /\ mpc' = "idle"
    /\ expected' = <<>>
    /\ tags_enabled' = FALSE
    /\ normalize_whitespace' = FALSE
    /\ compiled' = NotCompiled
    /\ got' = {}
    /\ matched' = {}
    /\ UNCHANGED notM

ExpectedNext ==
    \/ Compile
    \/ Match
    \/ NextExpected

SpecExpected == Init /\ [][ExpectedNext]_vars
-----------------------------------------------------------------------------
(* Terminal geometry: actions *)

\* _change_terminal_geometry, lines 194-201: the screen and the child pty
\* are resized
ChangeTerminalGeometry(g) ==
    /\ screen' = g
    /\ winsize' = g
    /\ resizes' = Append(resizes, g)

\* _spawn_interpreter, lines 90-104: the default geometry is recorded, the
\* child is spawned with it and the screen is created with it
SpawnInterpreter ==
    /\ gpc = "unspawned"
    /\ \E g \in Geometries :
        /\ terminal_default_geometry' = g
        /\ screen' = g
        /\ winsize' = g
    /\ gpc' = "idle"
    /\ UNCHANGED <<geometry, force, need_change, outcome, resizes>>
    /\ UNCHANGED notG

\* _change_terminal_geometry_ctx, lines 181-186 and 191-192: the context is
\* entered, by _run (line 130, force is False) or with force given
CtxEnter ==
    /\ gpc = "idle"
    /\ \E g \in Geometries, f \in BOOLEAN :
        /\ geometry' = g
        /\ force' = f
        /\ need_change' = NeedChange(terminal_default_geometry, g, f)
        /\ IF NeedChange(terminal_default_geometry, g, f)
           THEN /\ screen' = g
                /\ winsize' = g
                /\ resizes' = <<g>>
           ELSE /\ resizes' = <<>>
                /\ UNCHANGED <<screen, winsize>>
    /\ outcome' = "none"
    /\ gpc' = "inside"
    /\ UNCHANGED terminal_default_geometry
    /\ UNCHANGED notG

\* _run, line 131: _run_impl returns
BodyReturns ==
    /\ gpc = "inside"
    /\ outcome' = "returned"
    /\ gpc' = "exiting"
    /\ UNCHANGED <<terminal_default_geometry, screen, winsize, geometry, force,
                   need_change, resizes>>
    /\ UNCHANGED notG

\* _run, line 131: _run_impl raises, a TimeoutException or another exception
BodyRaises ==
    /\ gpc = "inside"
    /\ \E e \in {"TimeoutException", "Exception"} : outcome' = e
    /\ gpc' = "exiting"
    /\ UNCHANGED <<terminal_default_geometry, screen, winsize, geometry, force,
                   need_change, resizes>>
    /\ UNCHANGED notG

\* _change_terminal_geometry_ctx, lines 187-190: the finally clause
CtxExitRestores ==
    /\ gpc = "exiting"
    /\ RestoreOnExit(need_change, outcome)
    /\ ChangeTerminalGeometry(terminal_default_geometry)
    /\ gpc' = "left"
    /\ UNCHANGED <<terminal_default_geometry, geometry, force, need_change, outcome>>
    /\ UNCHANGED notG

\* _change_terminal_geometry_ctx, lines 191-192: nothing to restore
CtxExitPlain ==
    /\ gpc = "exiting"
    /\ ~RestoreOnExit(need_change, outcome)
    /\ gpc' = "left"
    /\ UNCHANGED <<terminal_default_geometry, screen, winsize, geometry, force,
                   need_change, outcome, resizes>>
    /\ UNCHANGED notG

\* the caller has the result or the exception of the with block
CtxLeft ==
    /\ gpc = "left"
    /\ gpc' = "idle"
    /\ geometry' = NoGeometry
    /\ force' = FALSE
    /\ need_change' = FALSE
    /\ outcome' = "none"
    /\ resizes' = <<>>
    /\ UNCHANGED <<terminal_default_geometry, screen, winsize>>
    /\ UNCHANGED notG

GeometryNext ==
    \/ SpawnInterpreter
    \/ CtxEnter
    \/ BodyReturns
    \/ BodyRaises
    \/ CtxExitRestores
    \/ CtxExitPlain
    \/ CtxLeft

SpecGeometry == Init /\ [][GeometryNext]_vars

-----------------------------------------------------------------------------
(* Finder: get_snippet_and_expected and its two steps *)

\* get_example calls finder.get_snippet_and_expected(match, where) for a
\* match that get_matches found at line s of the document
CallGetSnippetAndExpected ==
    /\ xpc = "idle"
    /\ \E t \in Matches, s \in 1..MaxLine :
         /\ example_str' = t
         /\ indent' = ReMatch(t).indent
         /\ where' = WhereOfMatch(t, s)
         /\ given' = [str |-> t, indent |-> ReMatch(t).indent,
                      where |-> WhereOfMatch(t, s)]
    /\ via' = "finder"
    /\ xpc' = "indent"
    /\ UNCHANGED <<new_match, xerror, groups>>
    /\ UNCHANGED notX

\* check_and_remove_indent called on its own, with any text and indent
CallCheckAndRemoveIndent ==
    /\ xpc = "idle"
    /\ \E t \in Texts, i \in Indents :
         /\ example_str' = t
         /\ indent' = i
         /\ where' = WhereOfMatch(t, 1)
         /\ given' = [str |-> t, indent |-> i, where |-> WhereOfMatch(t, 1)]
    /\ via' = "indent"
    /\ xpc' = "indent"
    /\ UNCHANGED <<new_match, xerror, groups>>
    /\ UNCHANGED notX

\* check_and_remove_indent returns the text without the indent
CheckAndRemoveIndentReturns ==
    /\ xpc = "indent"
    /\ LET r == CheckAndRemoveIndent(example_str, indent, where)
       IN  /\ r.err = "none"
           /\ example_str' = r.str
           /\ where' = r.where
    /\ xpc' = "stripped"
    /\ UNCHANGED <<via, indent, new_match, xerror, groups, given>>
    /\ UNCHANGED notX

\* check_and_remove_indent kept no line: ValueError("Inconsistent state.")
CheckAndRemoveIndentRaises ==
    /\ xpc = "indent"
    /\ LET r == CheckAndRemoveIndent(example_str, indent, where)
       IN  /\ r.err # "none"
           /\ where' = r.where
           /\ xerror' = [NoXError EXCEPT !.type = "ValueError", !.msg = r.err]
    /\ xpc' = "raised"
    /\ UNCHANGED <<via, example_str, indent, new_match, groups, given>>
    /\ UNCHANGED notX

\* check_keep_matching called on its own, with any text
CallCheckKeepMatching ==
    /\ xpc = "idle"
    /\ \E t \in Texts : example_str' = t
    /\ via' = "recheck"
    /\ xpc' = "stripped"
    /\ UNCHANGED <<indent, where, new_match, xerror, groups, given>>
    /\ UNCHANGED notX

\* check_keep_matching: the regex matches the whole text again
CheckKeepMatchingReturns ==
    /\ xpc = "stripped"
    /\ LET m == ReMatch(example_str)
       IN  /\ m.matched
           /\ ~(m.start # 0 \/ m.end # Len(example_str))
           /\ new_match' = m
    /\ xpc' = "matched"
    /\ UNCHANGED <<via, example_str, indent, where, xerror, groups, given>>
    /\ UNCHANGED notX

\* check_keep_matching: the regex does not match any more
CheckKeepMatchingNoMatch ==
    /\ xpc = "stripped"
    /\ ~ReMatch(example_str).matched
    /\ xerror' = [NoXError EXCEPT !.type = "ValueError", !.msg = "not matching"]
    /\ xpc' = "raised"
    /\ UNCHANGED <<via, example_str, indent, where, new_match, groups, given>>
    /\ UNCHANGED notX

\* check_keep_matching: the regex matches a part of the text only
CheckKeepMatchingDropped ==
    /\ xpc = "stripped"
    /\ LET m == ReMatch(example_str)
           d == Dropped(example_str, m)
       IN  /\ m.matched
           /\ m.start # 0 \/ m.end # Len(example_str)
           /\ xerror' = [type |-> "ValueError", msg |-> "bytes dropped",
                         at |-> d.at, dropped |-> d.dropped]
    /\ xpc' = "raised"
    /\ UNCHANGED <<via, example_str, indent, where, new_match, groups, given>>
    /\ UNCHANGED notX

\* ShellPromptFinder.get_snippet_and_expected returns the snippet without
\* its prompts, and the expected text
GetSnippetAndExpectedReturns ==
    /\ xpc = "matched"
    /\ via = "finder"
    /\ groups' = <<RemovePrompts(new_match.snippet), new_match.expected>>
    /\ xpc' = "returned"
    /\ UNCHANGED <<via, example_str, indent, where, new_match, xerror, given>>
    /\ UNCHANGED notX

\* the caller has the result or the exception: the locals are gone
ExtractCallEnds ==
    /\ \/ xpc \in {"returned", "raised"}
       \/ xpc = "matched" /\ via # "finder"
       \/ xpc = "stripped" /\ via = "indent"
    /\ xpc' = "idle"
    /\ via' = "none"
    /\ example_str' = <<>>
    /\ indent' = <<>>
    /\ where' = NoWhere
    /\ new_match' = NoMatch
    /\ xerror' = NoXError
    /\ groups' = <<>>
    /\ given' = NoGiven
    /\ UNCHANGED notX

ExtractNext ==
    \/ CallGetSnippetAndExpected
    \/ CallCheckAndRemoveIndent
    \/ CheckAndRemoveIndentReturns
    \/ CheckAndRemoveIndentRaises
    \/ CallCheckKeepMatching
    \/ CheckKeepMatchingReturns
    \/ CheckKeepMatchingNoMatch
    \/ CheckKeepMatchingDropped
    \/ GetSnippetAndExpectedReturns
    \/ ExtractCallEnds

SpecExtract == Init /\ [][ExtractNext]_vars
-----------------------------------------------------------------------------
(* Harvester: from_string_get_items_using with get_example *)

\* get_examples_using(finder, zone.str, filepath, zone.where.start_lineno)
\* of a harvester with some allowed languages, parsers and runners
CollectCall ==
    /\ cpc = "idle"
    /\ allowed_languages' \in SUBSET Languages
    /\ parser_by_language' \in SUBSET Languages
    /\ runner_by_language' \in SUBSET Languages
    /\ start_lineno' = 1
    /\ items' = <<>>
    /\ drop_log' = <<>>
    /\ seen' = <<>>
    /\ match' = NoCur
    /\ cpc' = "loop"
    /\ UNCHANGED notC

\* lines 440-455: the next match of matcher.get_matches(string); its
\* `where` is built and get_example is called
CollectMatch ==
    /\ cpc = "loop"
    /\ Len(seen) < MaxMatches
    /\ \E m \in FoundMatches :
         /\ start_lineno' = start_lineno + m.gap
         /\ match' = [language |-> m.language, fails |-> m.fails,
                    where |-> [start_lineno |-> start_lineno + m.gap,
                               end_lineno |-> start_lineno + m.gap + m.newlines]]
    /\ cpc' = "getter"
    /\ UNCHANGED <<allowed_languages, parser_by_language, runner_by_language,
                   items, drop_log, seen>>
    /\ UNCHANGED notC

\* get_example, lines 393-413: _log_drop and return None; nothing is added
GetExampleDrops ==
    /\ cpc = "getter"
    /\ LET why == DropReason(match.language, allowed_languages,
                             parser_by_language, runner_by_language)
       IN  /\ why # "none"
           /\ drop_log' = Append(drop_log, [reason |-> why, where |-> match.where])
           /\ seen' = Append(seen, [language |-> match.language,
                                    where |-> match.where, fate |-> "dropped"])
    /\ match' = NoCur
    /\ cpc' = "loop"
    /\ UNCHANGED <<allowed_languages, parser_by_language, runner_by_language,
                   start_lineno, items>>
    /\ UNCHANGED notC

\* get_example, lines 416-428: the finder gives the snippet and the expected
\* text; the example is added to items
GetExampleBuilds ==
    /\ cpc = "getter"
    /\ DropReason(match.language, allowed_languages,
                  parser_by_language, runner_by_language) = "none"
    /\ ~match.fails
    /\ items' = Append(items, [start_lineno |-> match.where.start_lineno,
                               end_lineno |-> match.where.end_lineno,
                               language |-> match.language])
    /\ seen' = Append(seen, [language |-> match.language,
                             where |-> match.where, fate |-> "built"])
    /\ match' = NoCur
    /\ cpc' = "loop"
    /\ UNCHANGED <<allowed_languages, parser_by_language, runner_by_language,
                   start_lineno, drop_log>>
    /\ UNCHANGED notC

\* get_example, line 419: finder.get_snippet_and_expected raises, and
\* enhance_exceptions raises the exception again
GetExampleRaises ==
    /\ cpc = "getter"
    /\ DropReason(match.language, allowed_languages,
                  parser_by_language, runner_by_language) = "none"
    /\ match.fails
    /\ seen' = Append(seen, [language |-> match.language,
                             where |-> match.where, fate |-> "raised"])
    /\ match' = NoCur
    /\ cpc' = "raised"
    /\ UNCHANGED <<allowed_languages, parser_by_language, runner_by_language,
                   start_lineno, items, drop_log>>
    /\ UNCHANGED notC

\* line 458: there is no match left, return items
CollectReturns ==
    /\ cpc = "loop"
    /\ cpc' = "returned"
    /\ UNCHANGED <<allowed_languages, parser_by_language, runner_by_language,
                   start_lineno, match, items, drop_log, seen>>
    /\ UNCHANGED notC

\* the caller has the items or the exception
CollectEnds ==
    /\ cpc \in {"returned", "raised"}
    /\ cpc' = "idle"
    /\ allowed_languages' = {}
    /\ parser_by_language' = {}
    /\ runner_by_language' = {}
    /\ start_lineno' = 0
    /\ match' = NoCur
    /\ items' = <<>>
    /\ drop_log' = <<>>
    /\ seen' = <<>>
    /\ UNCHANGED notC

CollectNext ==
    \/ CollectCall
    \/ CollectMatch
    \/ GetExampleDrops
    \/ GetExampleBuilds
    \/ GetExampleRaises
    \/ CollectReturns
    \/ CollectEnds

SpecCollect == Init /\ [][CollectNext]_vars
-----------------------------------------------------------------------------
(* Exceptions: actions *)

\* common.py lines 215-216: human_exceptions is entered and yields o
HumanEnter ==
    /\ epc = "idle"
    /\ \E v \in 0..MaxVerbosity, q \in BOOLEAN :
        /\ verbosity' = v
        /\ quiet' = q
    /\ yielded' = EmptyDict
    /\ printed' = <<>>
    /\ scopes' = <<>>
    /\ flying' = NoFlying
    /\ born' = NoFlying
    /\ born_in' = <<>>
    /\ epc' = "body"
    /\ UNCHANGED notE

\* common.py lines 238-239: the body enters a block of enhance_exceptions
EnhanceEnter ==
    /\ epc = "body"
    /\ Len(scopes) < MaxScopes
    /\ \E s \in Scopes : scopes' = Append(scopes, s)
    /\ UNCHANGED <<epc, verbosity, quiet, flying, yielded, printed, born, born_in>>
    /\ UNCHANGED notE

\* common.py lines 238-239: the innermost block ends with no exception
EnhanceLeaves ==
    /\ epc = "body"
    /\ scopes # <<>>
    /\ scopes' = SubSeq(scopes, 1, Len(scopes) - 1)
    /\ UNCHANGED <<epc, verbosity, quiet, flying, yielded, printed, born, born_in>>
    /\ UNCHANGED notE

\* the body raises an exception
BodyRaisesExc ==
    /\ epc = "body"
    /\ \E e \in Raisable :
        /\ flying' = e
        /\ born' = e
    /\ born_in' = scopes
    /\ epc' = "raising"
    /\ UNCHANGED <<verbosity, quiet, scopes, yielded, printed>>
    /\ UNCHANGED notE

\* common.py lines 240-243: the innermost block catches the exception, sets
\* its `where` and raises it again
EnhanceReraises ==
    /\ epc = "raising"
    /\ scopes # <<>>
    /\ flying' = Enhance(flying, scopes[Len(scopes)])
    /\ scopes' = SubSeq(scopes, 1, Len(scopes) - 1)
    /\ UNCHANGED <<epc, verbosity, quiet, yielded, printed, born, born_in>>
    /\ UNCHANGED notE

\* common.py lines 217-234: the exception reaches human_exceptions; the
\* clause that catches it prints and stores it, and the with statement ends
HumanExit ==
    /\ epc = "raising"
    /\ scopes = <<>>
    /\ IF ExceptClause(flying.cls) # "none"
       THEN /\ printed' = Report(flying, verbosity, quiet)
            /\ yielded' = DictWithExc(flying)
            /\ flying' = NoFlying
            /\ epc' = "recovered"
       ELSE /\ epc' = "propagated"
            /\ UNCHANGED <<printed, yielded, flying>>
    /\ UNCHANGED <<verbosity, quiet, scopes, born, born_in>>
    /\ UNCHANGED notE

\* common.py lines 215-216: the body ends with no exception
HumanReturns ==
    /\ epc = "body"
    /\ scopes = <<>>
    /\ epc' = "returned"
    /\ UNCHANGED <<verbosity, quiet, scopes, flying, yielded, printed, born, born_in>>
    /\ UNCHANGED notE

\* the caller goes on to the next with statement
HumanLeft ==
    /\ epc \in {"recovered", "returned", "propagated"}
    /\ epc' = "idle"
    /\ UNCHANGED <<verbosity, quiet, scopes, flying, yielded, printed, born, born_in>>
    /\ UNCHANGED notE

ErrorsNext ==
    \/ HumanEnter
    \/ EnhanceEnter
    \/ EnhanceLeaves
    \/ BodyRaisesExc
    \/ EnhanceReraises
    \/ HumanExit
    \/ HumanReturns
    \/ HumanLeft

SpecErrors == Init /\ [][ErrorsNext]_vars
-----------------------------------------------------------------------------
(* Harvester: properties *)

Span(e) == e.start_lineno .. e.end_lineno

\* C1: whenever check_example_overlap returns a list, no two consecutive
\* examples of it collide (Type 1: same start line; Type 2: curr starts
\* later and ends at or before prev's end; Type 3: curr starts at or before
\* prev's end): curr.start_lineno > prev.end_lineno for consecutive
\* examples, and the line spans of the returned examples are pairwise
\* disjoint.
C1_ReturnedCollisionFree ==
    hpc = "returned" =>
        /\ \A i \in 1..(Len(all_examples) - 1) :
              LET p == all_examples[i]
                  c == all_examples[i + 1]
              IN  /\ p.start_lineno # c.start_lineno
                  /\ ~(c.start_lineno > p.start_lineno /\ c.end_lineno <= p.end_lineno)
                  /\ ~(c.start_lineno <= p.end_lineno)
                  /\ c.start_lineno > p.end_lineno
        /\ \A i, j \in 1..Len(all_examples) :
              i # j => Span(all_examples[i]) \cap Span(all_examples[j]) = {}

\* a list of two or more examples is returned after an inner one was dropped
C1_Witness ==
    /\ hpc = "returned"
    /\ Len(all_examples) >= 2
    /\ Len(all_examples) < Len(sorted_input)

\* C7: check_example_overlap terminates: every restart of the scan has
\* removed exactly one example, there are at most n+1 scans of at most n
\* comparisons each (n the length of the input), and the call ends with a
\* returned list or with a ValueError: every step of the call lowers a rank
\* that is a natural number.
C7_Bounds ==
    LET n == Len(sorted_input) IN
    /\ scans <= n + 1
    /\ cmps <= n
    /\ hpc = "for" => Len(all_examples) = n - (scans - 1)
    /\ (hpc = "while" /\ ~collision_free) => Len(all_examples) = n - scans
    /\ hpc = "returned" => error = NoError
    /\ hpc = "raised" => error.kind = "ValueError"

\* what is left to do of a call: the examples still in the list weigh more than
\* the position in the current scan, so the rank of a restarted scan is lower
C7_Rank ==
    LET n == Len(sorted_input)
        k == Len(all_examples)
    IN  CASE hpc = "while" /\ ~collision_free -> k * (n + 4) + n + 3
          [] hpc = "for"                       -> k * (n + 4) + (k + 1 - idx) + 2
          [] hpc = "while" /\ collision_free  -> k * (n + 4) + 1
          [] OTHER                             -> 0

C7_Terminates ==
    /\ []C7_Bounds
    /\ [][ (hpc = "while" \/ hpc = "for") => (C7_Rank' < C7_Rank /\ 0 <= C7_Rank') ]_vars
    /\ [][ (hpc = "for" /\ hpc' = "while" /\ ~collision_free')
             => Len(all_examples') = Len(all_examples) - 1 ]_vars

\* the call ended after more than one scan
C7_Witness ==
    /\ hpc \in {"returned", "raised"}
    /\ scans >= 3
    /\ Len(sorted_input) = MaxExamples

\* C8: the list returned by get_examples_from_string is strictly increasing
\* in start_lineno, whatever the order in which the candidates were found.
C8_StrictlyIncreasing ==
    hpc = "returned" =>
        \A i, j \in 1..Len(all_examples) :
            i < j => all_examples[i].start_lineno < all_examples[j].start_lineno

\* two or more examples are returned that were not found in source order
C8_Witness ==
    /\ hpc = "returned"
    /\ Len(all_examples) >= 2
    /\ \E i \in 1..(Len(found_order) - 1) :
          found_order[i].start_lineno > found_order[i + 1].start_lineno

ExampleA == [start_lineno |-> 1, end_lineno |-> 4]
ExampleC == [start_lineno |-> 2, end_lineno |-> 3]

\* C9: when the scan compares prev with a curr that starts after prev and
\* ends at or before prev's end line, it removes curr and nothing else,
\* keeps prev and restarts the scan without raising; for the candidates
\* A(1-4) and C(2-3) the result is [A].
C9_Type2DropsInner ==
    /\ [][ ( /\ hpc = "for"
             /\ idx <= Len(all_examples)
             /\ all_examples[idx].start_lineno > prev.start_lineno
             /\ all_examples[idx].end_lineno <= prev.end_lineno )
           => ( /\ Len(all_examples') = Len(all_examples) - 1
                /\ \A j \in 1..(idx - 1) : all_examples'[j] = all_examples[j]
                /\ \A j \in idx..Len(all_examples') :
                      all_examples'[j] = all_examples[j + 1]
                /\ \E j \in 1..Len(all_examples') : all_examples'[j] = prev
                /\ hpc' = "while"
                /\ ~collision_free'
                /\ error' = NoError ) ]_vars
    /\ [](( /\ hpc = "returned"
            /\ \/ found_order = <<ExampleA, ExampleC>>
               \/ found_order = <<ExampleC, ExampleA>> )
          => all_examples = <<ExampleA>>)

\* A(1-4) and C(2-3) were found and the arbiter has returned
C9_Witness ==
    /\ hpc = "returned"
    /\ sorted_input = <<ExampleA, ExampleC>>
    /\ all_examples = <<ExampleA>>

\* C10: when the scan compares a prev/curr pair that starts on the same line
\* (Type 1) or that partially overlaps without containment (Type 3),
\* check_example_overlap raises ValueError naming the file and both line
\* spans, and no example list is returned afterwards.
C10_Type1And3Fatal ==
    /\ [][ ( /\ hpc = "for"
             /\ idx <= Len(all_examples)
             /\ \/ prev.start_lineno = all_examples[idx].start_lineno
                \/ /\ all_examples[idx].start_lineno <= prev.end_lineno
                   /\ prev.end_lineno < all_examples[idx].end_lineno )
           => ( /\ hpc' = "raised"
                /\ error' = [kind |-> "ValueError", filepath |-> Filepath,
                              curr |-> <<all_examples[idx].start_lineno,
                                         all_examples[idx].end_lineno>>,
                              prev |-> <<prev.start_lineno, prev.end_lineno>>] ) ]_vars
    /\ [][ hpc = "raised" => (hpc' = "raised" /\ error' = error) ]_vars

\* a Type 3 collision was raised after an earlier Type 2 drop
C10_Witness ==
    /\ hpc = "raised"
    /\ scans >= 2
    /\ error.curr[1] > error.prev[1]
    /\ error.curr[2] > error.prev[2]


\* the elements of s whose index is in K, in the order of s
RECURSIVE Pick(_, _, _)
Pick(s, K, i) ==
    IF i > Len(s) THEN <<>>
    ELSE (IF i \in K THEN <<s[i]>> ELSE <<>>) \o Pick(s, K, i + 1)

\* example c starts later than example p and ends no later
Inside(c, p) ==
    /\ p.start_lineno < c.start_lineno
    /\ c.end_lineno <= p.end_lineno

\* C32: check_example_overlap only removes examples: at every point of the
\* call, and when it returns, the list is the sorted input without some of
\* its elements, the others in the same order and unaltered, and every
\* element that is missing starts later and ends no later than an element
\* that is still in the list.
C32_OnlyRemovesInnerExamples ==
    hpc \in {"while", "for", "returned"} =>
        \E K \in SUBSET (1..Len(sorted_input)) :
            /\ Pick(sorted_input, K, 1) = all_examples
            /\ \A j \in (1..Len(sorted_input)) \ K :
                 \E k \in K : Inside(sorted_input[j], sorted_input[k])

\* two examples were removed from a list of three, and one was returned
C32_Witness ==
    /\ hpc = "returned"
    /\ Len(sorted_input) = 3
    /\ Len(all_examples) = 1
    /\ sorted_input[2] # sorted_input[3]
-----------------------------------------------------------------------------
(* Parser: properties *)

\* C2: parse pops the option stack exactly once for each push on every exit
\* path: after parse has returned or raised (for instance because the
\* before_build_regex hook failed after the push), the option stack is as
\* deep as it was before the call.
C2_StackBalanced ==
    ppc \in {"returned", "raised"} => Len(opt_stack) = depth_before


\* what a step does to an example that is fully parsed already: the example,
\* the parser and its option stack are left alone, and the only thing that
\* can happen is the ValueError of parse_yourself
ParsedStaysParsed ==
    (ex.fully_parsed /\ ex'.id = ex.id) =>
        /\ ex' = ex
        /\ nparses' = nparses
        /\ opt_stack' = opt_stack
        /\ opts_cache' = opts_cache
        /\ strict_runs' = strict_runs
        /\ ppc' = "raised" /\ perror' = "ParsedTwice"

\* fully_parsed is set by the step in which parse returns
ParsedOnlyOnReturn ==
    (~ex.fully_parsed /\ ex'.fully_parsed) =>
        /\ ex'.id = ex.id
        /\ ppc = "compiled" /\ ppc' = "returned"
        /\ perror' = "none"

\* C18: parse_yourself called on an example whose fully_parsed is true
\* raises ValueError, does not call the parser and leaves the example as it
\* is; fully_parsed becomes true only when parser.parse returns, it is false
\* after a parse that raised, and it never becomes false again.
C18_ParsedAtMostOnce ==
    /\ [](ex.fully_parsed =>
            \/ ppc = "returned"
            \/ ppc = "raised" /\ perror = "ParsedTwice")
    /\ []((ppc = "raised" /\ perror # "ParsedTwice") => ~ex.fully_parsed)
    /\ [][ParsedStaysParsed /\ ParsedOnlyOnReturn]_vars

\* parse_yourself was called a second time on a parsed example
C18_Witness ==
    /\ ppc = "raised"
    /\ perror = "ParsedTwice"
    /\ ex.fully_parsed
    /\ nparses = 1

\* x occurs in s
Occurs(s, x) == \E i \in 1..Len(s) : OccursAt(s, x, i)

\* s is t with some characters deleted
RECURSIVE IsSubsequence(_, _)
IsSubsequence(s, t) ==
    IF s = <<>> THEN TRUE
    ELSE IF t = <<>> THEN FALSE
    ELSE IF Head(s) = Head(t) THEN IsSubsequence(Tail(s), Tail(t))
    ELSE IsSubsequence(s, Tail(t))

\* the rm option in force when the example was compiled
RmOf(e) == e.options[1].rm

\* C19: parse applies rm before it compiles, so that the expected text that
\* is compiled and stored in the example holds no occurrence of a substring
\* listed in rm.
C19_NoListedSubstringLeft ==
    ppc \in {"compiled", "returned"} =>
        \A i \in 1..Len(RmOf(ex)) : ~Occurs(ex.expected_str, RmOf(ex)[i])

\* what parse does guarantee: the text compiled is the text stored, it is
\* the text found with some characters deleted, the same text when no
\* listed substring occurs in it, and it holds no occurrence of a listed
\* substring of one character.  A longer substring is removed in one pass
\* from left to right, and the text around a removed occurrence may form a
\* new one, which stays.
RmAppliedInOnePass ==
    ppc \in {"compiled", "returned"} =>
        /\ ex.expected[1].str = ex.expected_str
        /\ IsSubsequence(ex.expected_str, ex.found_expected)
        /\ (\A i \in 1..Len(RmOf(ex)) : ~Occurs(ex.found_expected, RmOf(ex)[i]))
              => ex.expected_str = ex.found_expected
        /\ \A i \in 1..Len(RmOf(ex)) :
             /\ Len(RmOf(ex)[i]) = 1 => ~Occurs(ex.expected_str, RmOf(ex)[i])
             /\ Occurs(ex.found_expected, RmOf(ex)[i])
                   => Len(ex.expected_str) < Len(ex.found_expected)

\* the cache holds the strict parse of every key, and only of option lists
\* that parse; the strict parse of such a list has been executed once if it
\* is in the cache and never otherwise
CacheIsSound ==
    /\ \A e \in opts_cache :
         /\ e.key \in OptLists
         /\ ~Unrecognized(e.key)
         /\ e.val = ParseOptionsStrictly(e.key)
    /\ \A ol \in OptLists :
         ~Unrecognized(ol) =>
            strict_runs[ol] = IF \E e \in opts_cache : e.key = ol THEN 1 ELSE 0

\* the options an example gets are those of an uncached strict parse
OptionsAsUncached ==
    /\ ppc \in {"pushed", "processed", "hooked", "compiled"} =>
         opt_stack[Len(opt_stack)] = ParseOptionsStrictly(ex.optlist)
    /\ ppc \in {"processed", "hooked", "compiled", "returned"} =>
         ex.options = << ParseOptionsStrictly(ex.optlist) >>

\* a call of parse on an option list that does not parse executes the strict
\* parse again, raises ValueError and caches nothing
FailedParseRunsAgain ==
    (nparses' = nparses + 1 /\ Unrecognized(ex'.optlist)) =>
        /\ ppc' = "raised" /\ perror' = "ValueError"
        /\ strict_runs'[ex'.optlist] = strict_runs[ex'.optlist] + 1
        /\ opts_cache' = opts_cache

\* C20: the options of an example are those an uncached strict parse of its
\* option list gives, whether they come from the cache or not; the strict
\* parse of an option list that parses is executed at most once, the first
\* time the list is met; an option list that does not parse is never cached
\* and its strict parse is executed, and fails, every time.
C20_OptionCacheTransparent ==
    /\ [](CacheIsSound /\ OptionsAsUncached)
    /\ [][FailedParseRunsAgain]_vars

\* the second example has the option list of the first one and its options
\* come from the cache
C20_Witness ==
    /\ ppc = "pushed"
    /\ nparses = 2
    /\ ex.id = 2
    /\ ex.optlist = <<"-tags", "+norm-ws">>
    /\ strict_runs[ex.optlist] = 1
    /\ Cardinality(opts_cache) = 1

\* an example as the finder hands it to the parser: nothing parsed into it
Untouched(e) ==
    e = FreshExample(e.id, e.snippet, e.optlist, e.expected_str)

\* a call of parse on an example whose options hold an unrecognized one
StrictParseOfUnrecognized ==
    /\ nparses' = nparses + 1
    /\ Unrecognized(ex'.optlist)

\* C21: under strict parsing an unrecognized option makes the parse raise
\* ValueError before the option scope is pushed: the option stack is the one
\* the call found, and the example has the fields it was handed in with
C21_UnrecognizedOptionLeavesNoTrace ==
    /\ [][StrictParseOfUnrecognized =>
            /\ ppc' = "raised"
            /\ perror' = "ValueError"
            /\ opt_stack' = opt_stack
            /\ (ex' = ex \/ Untouched(ex'))]_vars
    /\ [][perror' = "ValueError" /\ perror # "ValueError" =>
            StrictParseOfUnrecognized]_vars

\* the second parse failed on an unrecognized option
C21_Witness ==
    /\ ppc = "raised"
    /\ perror = "ValueError"
    /\ nparses = 2
    /\ Unrecognized(ex.optlist)
    /\ Len(opt_stack) = depth_before
-----------------------------------------------------------------------------
(* Runner: properties *)

IsSend(e) == e.ev = "sendline"
IsFound(e) == e.ev = "expect" /\ e.what = "found"
IsControl(e) == e.ev = "sendcontrol"

\* what _exec_and_wait did: the history of a run up to the first control
\* character
ExecTrace ==
    LET zs == { i \in DOMAIN trace : IsControl(trace[i]) }
    IN  IF zs = {} THEN trace
        ELSE SubSeq(trace, 1, (CHOOSE i \in zs : \A j \in zs : i <= j) - 1)

\* the pieces are sent in their order, one at a time; every send is followed
\* by one call of _expect_prompt, for any prompt after every piece but the
\* last and for the primary prompt after the last; a piece is sent only when
\* the prompt of the piece before was found; the texts read before the
\* prompts found are at the end of last_output in this order
ExecInOrder ==
    LET pieces == SplitOn(source, "\n")
        n      == Len(pieces)
        tr     == ExecTrace
        S      == { i \in DOMAIN tr : IsSend(tr[i]) }
        sends  == SelectSeq(tr, IsSend)
        founds == SelectSeq(tr, IsFound)
        nth(p) == Cardinality({ q \in S : q <= p })
        last(i) == CHOOSE p \in S : p < i /\ \A q \in S : q < i => q <= p
    IN  /\ Len(sends) <= n
        /\ \A k \in DOMAIN sends : sends[k].arg = pieces[k]
        /\ tr # <<>> => 1 \in S
        /\ \A p \in S :
              /\ p + 1 \in DOMAIN tr
              /\ tr[p + 1].ev = "expect_prompt"
              /\ tr[p + 1].re = (IF nth(p) < n THEN "any_PS" ELSE "PS1")
              /\ p > 1 => IsFound(tr[p - 1])
        /\ \A i \in DOMAIN tr :
              /\ tr[i].ev = "expect_prompt" => i - 1 \in S
              /\ tr[i].ev = "expect" =>
                    /\ tr[i - 1].ev \in {"expect_prompt", "expect"}
                    /\ tr[i].re = tr[last(i) + 1].re
              /\ (IsFound(tr[i]) /\ i + 1 \in DOMAIN tr) => i + 1 \in S
        /\ Len(run_read) >= Len(founds)
        /\ (rpc \in {"send", "expect", "found"} /\ tr = trace) =>
              /\ Len(run_read) = Len(founds)
              /\ Len(last_output) <= Len(run_read)
              /\ last_output = SubSeq(run_read, Len(run_read) - Len(last_output) + 1,
                                      Len(run_read))
              /\ (\A i \in DOMAIN tr : tr[i].what # "timeout") => last_output = run_read
        /\ (rpc = "done" /\ tr = trace /\ result.kind = "returned") =>
              /\ Len(sends) = n
              /\ IsFound(tr[Len(tr)])

\* every expect is the first one after a call of _expect_prompt
ExecOneExpect ==
    \A i \in DOMAIN ExecTrace :
        ExecTrace[i].ev = "expect" => ExecTrace[i - 1].ev = "expect_prompt"

\* an expect that is not the first one after a call of _expect_prompt comes
\* after an expect that timed out
ExecRetriesAfterTimeout ==
    \A i \in DOMAIN ExecTrace :
        (ExecTrace[i].ev = "expect" /\ ExecTrace[i - 1].ev = "expect") =>
            ExecTrace[i - 1].what = "timeout"

\* C3, as the claim states it: _exec_and_wait sends the pieces of the source
\* one at a time and performs exactly one expect after each send before the
\* next send, for any prompt after every piece but the last and for the
\* primary prompt after the last; the text read before each prompt found is
\* appended to last_output in send order.
C3_OneExpectPerSend ==
    op = "run" => (ExecInOrder /\ ExecOneExpect)

\* C3, amended: _exec_and_wait sends the pieces of the source one at a time
\* and calls _expect_prompt exactly once after each send before the next send,
\* for any prompt after every piece but the last and for the primary prompt
\* after the last; the call performs exactly one expect without
\* stop_on_silence and, with stop_on_silence, one expect and one more after
\* each expect that timed out and is retried, all for the same prompt; the
\* text read before each prompt found is appended to last_output in send
\* order.
C3_OnePromptWaitPerSend ==
    op = "run" =>
        /\ ExecInOrder
        /\ opts.stop_on_silence = False_ => ExecOneExpect
        /\ ExecRetriesAfterTimeout

\* a run of a source of two lines returned after an expect of the silence
\* loop timed out and was retried
C3_Witness ==
    /\ op = "run"
    /\ rpc = "done"
    /\ result.kind = "returned"
    /\ Len(SplitOn(source, "\n")) = 3
    /\ ~ExecOneExpect
    /\ \A i \in DOMAIN trace : ~IsControl(trace[i])

\* C4: when an expect times out during run, the TimeoutException carries the
\* partial output collected so far: the emulated text of every chunk
\* collected since the run began, the texts read before the prompts found
\* and the text read before the timeout; with or without stop_on_silence.
C4_TimeoutCarriesAllOutput ==
    (op = "run" /\ ctx = "exec" /\ rpc = "raised") =>
        /\ exc.kind = "TimeoutException"
        /\ exc.output = GetOutput(opts.term, Append(run_read, exc.before))

\* C5: cancel sends ctrl-C, then waits for the primary prompt with the
\* default timeout, drops the output, and returns True if the prompt was
\* found and False if the wait timed out; no TimeoutException reaches the
\* caller.
C5_CancelReturnsBoolean ==
    op = "cancel" =>
        /\ Len(trace) >= 2
        /\ trace[1] = Event("sendcontrol", <<"c">>, "", 0, "")
        /\ trace[2] = Event("expect_prompt", <<>>, "PS1", DflTimeout, "")
        /\ \A i \in 3..Len(trace) : trace[i].ev = "expect" /\ trace[i].re = "PS1"
        /\ opts.stop_on_silence = False_ =>
              /\ Len(trace) <= 3
              /\ Len(trace) = 3 => trace[3].t = DflTimeout
        /\ result.kind # "TimeoutException"
        /\ rpc = "done" =>
              /\ Len(trace) >= 3
              /\ result.kind = "returned"
              /\ result.value = (IF IsFound(trace[Len(trace)]) THEN "True" ELSE "False")
              /\ last_output = <<>>

\* cancel returned False after a wait that read some text and timed out
C5_Witness ==
    /\ op = "cancel"
    /\ rpc = "done"
    /\ result.value = "False"
    /\ exc.kind = "TimeoutException"
    /\ exc.before # <<>>

\* what _run_impl does with a timeout of _exec_and_wait: with stop_on_timeout
\* or stop_on_silence ctrl-Z is sent and the primary prompt is waited for with
\* the default timeout; with neither, the exception reaches the caller and
\* nothing is sent
RunTimeoutHandled ==
    /\ [][ (op = "run" /\ rpc = "raised" /\ ctx = "exec") =>
             IF opts.stop_on_timeout \/ opts.stop_on_silence # False_
             THEN /\ trace' = trace \o << Event("sendcontrol", <<"z">>, "", 0, ""),
                                          Event("expect_prompt", <<>>, "PS1", DflTimeout, "") >>
                  /\ rpc' = "expect"
                  /\ ctx' = "ctrlz"
                  /\ out' = exc.output
             ELSE /\ trace' = trace
                  /\ rpc' = "done"
                  /\ result' = [kind |-> "TimeoutException", output |-> exc.output,
                                value |-> "none"] ]_vars
    /\ [](op = "run" =>
             /\ (~(opts.stop_on_timeout \/ opts.stop_on_silence # False_)) =>
                    \A i \in DOMAIN trace : ~IsControl(trace[i])
             /\ \A i \in DOMAIN trace : \A j \in DOMAIN trace :
                    (IsControl(trace[i]) /\ i < j) =>
                        /\ trace[i].arg = <<"z">>
                        /\ trace[j].ev \in {"expect_prompt", "expect"}
                        /\ trace[j].re = "PS1")

\* the prompt is found after ctrl-Z: the output read meanwhile is dropped and
\* the output the timeout carried is the result of run
RunStoppedReturns ==
    [][ (op = "run" /\ ctx = "ctrlz" /\ rpc = "found") =>
          /\ rpc' = "done"
          /\ result' = [kind |-> "returned", output |-> out, value |-> "none"]
          /\ last_output' = <<>> ]_vars

\* C6, as the claim states it: when run times out and stop_on_timeout or
\* stop_on_silence is enabled, ctrl-Z is sent, the primary prompt is waited
\* for, the output collected meanwhile is dropped and the partial output the
\* timeout carried is the result of run; with neither option the
\* TimeoutException reaches the caller and no ctrl-Z is sent.
C6_StopAlwaysReturns ==
    /\ RunTimeoutHandled
    /\ RunStoppedReturns
    /\ [][ (op = "run" /\ ctx = "ctrlz" /\ rpc' = "done") =>
             result' = [kind |-> "returned", output |-> out, value |-> "none"] ]_vars

\* C6, amended: when run times out and stop_on_timeout or stop_on_silence is
\* enabled, ctrl-Z is sent and the primary prompt is waited for; if it is
\* found, the output collected meanwhile is dropped and the partial output the
\* timeout carried is the result of run; if this wait times out too, its
\* TimeoutException reaches the caller; with neither option the
\* TimeoutException of the run reaches the caller and no ctrl-Z is sent.
C6_StopReturnsOrRaises ==
    /\ RunTimeoutHandled
    /\ RunStoppedReturns
    /\ [][ (op = "run" /\ ctx = "ctrlz" /\ rpc = "raised") =>
             /\ rpc' = "done"
             /\ result' = [kind |-> "TimeoutException", output |-> exc.output,
                           value |-> "none"] ]_vars

\* run returned a partial output that is not empty after ctrl-Z
C6_Witness ==
    /\ op = "run"
    /\ rpc = "done"
    /\ result.kind = "returned"
    /\ result.output # <<>>
    /\ \E i \in DOMAIN trace : IsControl(trace[i])


\* C33: last_output is empty whenever initialize, run or cancel has
\* returned, after run or initialize has raised a TimeoutException, and
\* between two calls; while a call is in progress it holds only texts that
\* the expects of this call have read, in their order.
C33_OutputBufferEmptyBetweenCalls ==
    /\ rpc \in {"ready", "done"} => last_output = <<>>
    /\ rpc = "done" => result.kind \in {"returned", "TimeoutException"}
    /\ op # "none" =>
         /\ Len(last_output) <= Len(run_read)
         /\ last_output = SubSeq(run_read, Len(run_read) - Len(last_output) + 1,
                                 Len(run_read))

\* run has returned an output made of two texts read by its expects
C33_Witness ==
    /\ op = "run"
    /\ rpc = "done"
    /\ result.kind = "returned"
    /\ Len(run_read) >= 2
    /\ run_read[1] # <<>>
    /\ run_read[2] # <<>>
    /\ last_output = <<>>

\* the call in progress has given the control back without an exception and,
\* for cancel, with True
ReturnedInControl ==
    /\ rpc = "done"
    /\ result.kind = "returned"
    /\ op = "cancel" => result.value = "True"

\* C34: when run returns a result, its own or the one of a timeout caught
\* with stop_on_timeout or stop_on_silence, when initialize returns and when
\* cancel returns True, the last thing the call did to the interpreter is an
\* expect for the primary prompt PS1_re that found it: not an expect for any
\* prompt, and not one that timed out.
C34_ReturnsAtPrimaryPrompt ==
    ReturnedInControl =>
        /\ trace # <<>>
        /\ trace[Len(trace)].ev = "expect"
        /\ trace[Len(trace)].re = "PS1"
        /\ trace[Len(trace)].what = "found"

\* run returned the output of a timeout, after ctrl-Z and an expect that
\* found the primary prompt
C34_Witness ==
    /\ ReturnedInControl
    /\ op = "run"
    /\ \E i \in DOMAIN trace : IsControl(trace[i])
    /\ \E i \in DOMAIN trace : trace[i].what = "timeout"

\* the timeout the call in progress gave to _exec_and_wait
InitialTimeout == IF op = "initialize" THEN DflTimeout ELSE opts.timeout

\* the sum of the first k entries of s
RECURSIVE SumUpTo(_, _)
SumUpTo(s, k) == IF k = 0 THEN 0 ELSE SumUpTo(s, k - 1) + s[k]

\* the places of the history where _exec_and_wait called _expect_prompt
ExecPromptCalls ==
    LET tr == ExecTrace
    IN  { i \in DOMAIN tr : tr[i].ev = "expect_prompt" }

\* C35: within one _exec_and_wait the timeout handed to the k-th call of
\* _expect_prompt is the initial timeout minus the time the k-1 calls before
\* took, each time counted as 0 or more, so that it never grows from one line
\* to the next; PexpectMixin._expect_prompt hands it to the expect of the
\* interpreter as it is when it is 0 or more and as 0 when it is negative;
\* no expect of the interpreter is given a negative timeout.
C35_TimeoutIsOneBudget ==
    op \in {"run", "initialize"} =>
        LET tr == ExecTrace
            P  == ExecPromptCalls
            nth(i) == Cardinality({ q \in P : q <= i })
        IN  /\ \A i \in P :
                 /\ nth(i) - 1 <= Len(spent)
                 /\ tr[i].t = InitialTimeout - SumUpTo(spent, nth(i) - 1)
            /\ \A i \in P : \A j \in P : i < j => tr[j].t <= tr[i].t
            /\ \A k \in DOMAIN spent : spent[k] >= 0
            /\ \A i \in DOMAIN trace : trace[i].ev = "expect" => trace[i].t >= 0
            /\ opts.stop_on_silence = False_ =>
                 \A i \in DOMAIN tr : tr[i].ev = "expect" =>
                     /\ tr[i - 1].ev = "expect_prompt"
                     /\ tr[i].t = Max(tr[i - 1].t, 0)

\* the second line of a source was waited for with what the first wait left
\* of the timeout, and the last one with a timeout of 0 because more than the
\* whole timeout was spent
C35_Witness ==
    /\ op = "run"
    /\ opts.stop_on_silence = False_
    /\ Len(spent) = 2
    /\ spent[1] > 0
    /\ SumUpTo(spent, 2) > opts.timeout
    /\ rpc = "found"
    /\ trace[Len(trace)].t = 0
    /\ trace[Len(trace) - 1].t < 0
-----------------------------------------------------------------------------
(* Shell runner: the stop_on_silence loop *)

\* the call of _expect_prompt the i-th entry of the history belongs to
PromptCallOf(i) ==
    CHOOSE g \in 1..i : /\ trace[g].ev = "expect_prompt"
                        /\ \A h \in (g + 1)..i : trace[h].ev = "expect"

\* the time the expects of one call of _expect_prompt took, up to the i-th
\* entry of the history
SpentUpTo(i) ==
    LET g == PromptCallOf(i)
        sum[k \in g..i] == IF k = g THEN 0 ELSE sum[k - 1] + trace[k].t
    IN  sum[i]

\* the length of the output at the timeout before the i-th entry of the
\* history, in the same call of _expect_prompt; 0 when there is none
PrevOutputLen(i) ==
    IF trace[i - 1].ev = "expect" THEN Len(trace[i - 1].arg) ELSE 0

\* what is left to do of the loop
SilenceRank ==
    IF opts.stop_on_silence # False_ /\ (rpc = "expect" \/ rpc = "timeout")
    THEN 2 * Max(sh_timeout, 0) + (IF rpc = "expect" THEN 2 ELSE 1)
    ELSE 0

\* C11: with stop_on_silence the shell runner's _expect_prompt repeats the
\* expect and stops as soon as the prompt is found (it returns), or an expect
\* timed out without more output than at the timeout before (idleness), or
\* the overall timeout is used up (the timeout is raised): an expect is
\* repeated only after a timeout with more output and with time left, the
\* number of expects of one call is bounded by the overall timeout, and every
\* step of the loop lowers a rank that is a natural number.
C11_SilenceLoopBounded ==
    /\ [](opts.stop_on_silence # False_ =>
            \A i \in DOMAIN trace : trace[i].ev = "expect" =>
                LET g == PromptCallOf(i)
                    last == i = Len(trace) \/ trace[i + 1].ev # "expect"
                IN  /\ i - g <= Max(trace[g].t, 1)
                    /\ trace[i].t >= 0
                    /\ trace[i].what = "found" => last
                    /\ (trace[i].what = "timeout" /\ ~last) =>
                          /\ Len(trace[i].arg) > PrevOutputLen(i)
                          /\ SpentUpTo(i) < trace[g].t
                    /\ (trace[i].what = "timeout" /\ last /\ rpc # "timeout" /\ rpc # "expect") =>
                          \/ Len(trace[i].arg) <= PrevOutputLen(i)
                          \/ SpentUpTo(i) >= trace[g].t
                    /\ (i = Len(trace) /\ (rpc = "found" \/ rpc = "raised")) =>
                          (rpc = "found" <=> trace[i].what = "found"))
    /\ [][ (opts.stop_on_silence # False_ /\ (rpc = "expect" \/ rpc = "timeout")) =>
             (SilenceRank' < SilenceRank /\ 0 <= SilenceRank') ]_vars

\* the loop has repeated an expect after a timeout with more output, and has
\* raised the timeout of the repeated expect
C11_Witness ==
    /\ op = "run"
    /\ rpc = "raised"
    /\ opts.stop_on_silence # False_
    /\ Len(trace) >= 2
    /\ trace[Len(trace)].what = "timeout"
    /\ trace[Len(trace) - 1].what = "timeout"


\* what is left of the timeout of the call of _expect_prompt when the expect
\* at the i-th entry of the history begins
RemainingAt(i) == trace[PromptCallOf(i)].t - SpentUpTo(i - 1)

\* the expect at the i-th entry of the history does not wait longer than
\* what is left of the timeout of its call
WindowCapped(i) == trace[i].t <= Max(RemainingAt(i), 0)

\* the expects of the loop that follow a timeout of the same call are
\* capped by what is left of the timeout
SilenceRetriesCapped ==
    opts.stop_on_silence # False_ =>
        \A i \in DOMAIN trace :
            (trace[i].ev = "expect" /\ trace[i - 1].ev = "expect") =>
                WindowCapped(i)

\* C36: with stop_on_silence no expect of the shell runner's _expect_prompt
\* waits longer than what is left of the timeout of the call, the first
\* expect of the call included, and the time the expects of one call take
\* is never more than that timeout.
C36_SilenceWindowWithinTimeout ==
    opts.stop_on_silence # False_ =>
        \A i \in DOMAIN trace : trace[i].ev = "expect" =>
            /\ WindowCapped(i)
            /\ SpentUpTo(i) <= Max(trace[PromptCallOf(i)].t, 0)
-----------------------------------------------------------------------------
(* Terminal geometry: properties *)

\* C12: _run restores the terminal geometry on exit: when the geometry of the
\* example differs from the default geometry recorded at spawn, the screen
\* and the child pty have the geometry of the example while _run_impl runs
\* and are resized back to the default after it, whether _run_impl returned
\* or raised (a TimeoutException included).
C12_GeometryRestored ==
    (~force /\ geometry # terminal_default_geometry) =>
        /\ (gpc = "inside" \/ gpc = "exiting") =>
              /\ screen = geometry
              /\ winsize = geometry
              /\ resizes = <<geometry>>
        /\ gpc = "left" =>
              /\ screen = terminal_default_geometry
              /\ winsize = terminal_default_geometry
              /\ resizes = <<geometry, terminal_default_geometry>>

\* _run_impl raised a TimeoutException under another geometry and the
\* context is left
C12_Witness ==
    /\ gpc = "left"
    /\ ~force
    /\ geometry # terminal_default_geometry
    /\ outcome = "TimeoutException"
    /\ screen = terminal_default_geometry

\* C13: _change_terminal_geometry_ctx performs no resize at all, neither of
\* the screen nor of the child pty, when the geometry requested is the
\* default geometry and force is false; with force true it performs the
\* resize and the restoring resize even when the two are equal.
C13_ResizeOnlyWhenNeeded ==
    (gpc = "inside" \/ gpc = "exiting" \/ gpc = "left") =>
        /\ (geometry = terminal_default_geometry /\ ~force) =>
              /\ resizes = <<>>
              /\ screen = terminal_default_geometry
              /\ winsize = terminal_default_geometry
        /\ force =>
              resizes = IF gpc = "left" THEN <<geometry, terminal_default_geometry>>
                        ELSE <<geometry>>

\* a forced change to the default geometry has resized twice
C13_Witness ==
    /\ gpc = "left"
    /\ force
    /\ geometry = terminal_default_geometry
    /\ Len(resizes) = 2

-----------------------------------------------------------------------------
(* Finder: properties of get_snippet_and_expected *)

\* check_and_remove_indent has returned or raised in the call in progress
IndentRemoved == given # NoGiven /\ xpc # "indent"

\* the numbers (from 1) of the lines that are not empty and do not begin
\* with the indent
BadLines(ls, ind) ==
    {i \in 1..Len(ls) : ls[i] # <<>> /\ ~StartsWith(ls[i], ind)}

\* the number of lines before the first bad line
KeptLines(ls, bad) ==
    IF bad = {} THEN Len(ls)
    ELSE (CHOOSE i \in bad : \A j \in bad : i <= j) - 1

\* C14: check_and_remove_indent keeps the lines before the first line that
\* is not empty and does not begin with the indent, and only them: an
\* empty line stays empty and every other kept line loses the indent it
\* begins with.  When a line is discarded where.end_lineno becomes
\* start_lineno + (number of kept lines) - 1, otherwise `where` is as it
\* was given; start_lineno never changes.  It raises exactly when it kept
\* no line.
C14_IndentRemovedAndTruncated ==
    IndentRemoved =>
        LET ls   == SplitOn(given.str, "\n")
            bad  == BadLines(ls, given.indent)
            n    == KeptLines(ls, bad)
            kept == SplitOn(example_str, "\n")
        IN  /\ where.start_lineno = given.where.start_lineno
            /\ where.end_lineno = IF bad = {} THEN given.where.end_lineno
                                  ELSE given.where.start_lineno + n - 1
            /\ (xerror.msg = "Inconsistent state.") = (n = 0)
            /\ n > 0 =>
                 /\ Len(kept) = n
                 /\ \A i \in 1..n :
                      /\ ls[i] = <<>> => kept[i] = <<>>
                      /\ ls[i] # <<>> => given.indent \o kept[i] = ls[i]

\* an indented text with an empty line in it was cut at its third line
C14_Witness ==
    LET ls  == SplitOn(given.str, "\n")
        bad == BadLines(ls, given.indent)
        n   == KeptLines(ls, bad)
    IN  /\ IndentRemoved
        /\ xpc = "stripped"
        /\ given.indent # <<>>
        /\ bad # {}
        /\ n >= 2
        /\ \E i \in 1..n : ls[i] = <<>>
        /\ \E i \in 1..n : ls[i] # <<>>

\* C15: once get_snippet_and_expected has removed the indent and the regex
\* has matched the text again, check_and_remove_indent applied to that text,
\* with the indent the new match captured and the `where` of the first
\* pass, returns the same text and leaves `where` as it is.
C15_IndentRemovalIdempotent ==
    (via = "finder" /\ xpc \in {"matched", "returned"}) =>
        LET again == CheckAndRemoveIndent(example_str, new_match.indent, where)
        IN  /\ again.err = "none"
            /\ again.str = example_str
            /\ again.where = where

\* the first pass removed an indent and cut the example, and the regex
\* matched what was left
C15_Witness ==
    /\ via = "finder"
    /\ xpc = "matched"
    /\ given.indent # <<>>
    /\ example_str # given.str
    /\ where.end_lineno < given.where.end_lineno
    /\ Len(SplitOn(example_str, "\n")) >= 2

\* get_snippet_and_expected never fails on a match of the shell finder
ExtractNeverFails == via = "finder" => xpc # "raised"

\* check_keep_matching has returned or raised in the call in progress
KeepMatchingDone ==
    \/ xpc \in {"matched", "returned"}
    \/ xpc = "raised" /\ xerror.msg # "Inconsistent state."

NothingKept ==
    LET ls == SplitOn(given.str, "\n")
    IN  ls[1] # <<>> /\ ~StartsWith(ls[1], given.indent)

\* check_and_remove_indent raises ValueError exactly when no line is kept
RaisesWhenNothingKept ==
    NothingKept <=>
        /\ xpc = "raised"
        /\ xerror.type = "ValueError"
        /\ xerror.msg = "Inconsistent state."

\* C38 as stated: when indent normalization yields nothing
\* check_and_remove_indent raises ValueError and `where` is left as it was
\* before the call.
C38_RaisesAndLeavesWhere ==
    IndentRemoved =>
        /\ RaisesWhenNothingKept
        /\ NothingKept => where = given.where

\* C38, amended: when indent normalization yields nothing
\* check_and_remove_indent raises ValueError, and `where` is not as it was:
\* start_lineno is unchanged and end_lineno has been set to
\* start_lineno - 1, the line before the example.
C38_RaisesAndShrinksWhere ==
    IndentRemoved =>
        /\ RaisesWhenNothingKept
        /\ NothingKept =>
             /\ where.start_lineno = given.where.start_lineno
             /\ where.end_lineno = given.where.start_lineno - 1
             /\ where # given.where

\* check_and_remove_indent raised on a text of three lines whose first line
\* has fewer spaces than the indent
C38_Witness ==
    /\ xpc = "raised"
    /\ xerror.msg = "Inconsistent state."
    /\ NothingKept
    /\ given.indent # <<>>
    /\ given.where.end_lineno = given.where.start_lineno + 2
    /\ where.end_lineno = where.start_lineno - 1

\* the two characters of a prompt of the shell: PS1 or PS2
ShellPrompts == { <<"$", " ">>, <<">", " ">> }

\* C39: every line of a snippet that the regex of the shell finder has
\* accepted, after the indent has been removed, begins with the two
\* characters of a prompt, so that line[2:] removes the prompt and nothing
\* else: the source returned, with a prompt put back before each of its
\* lines, is the snippet.
C39_OnlyPromptsRemoved ==
    (via = "finder" /\ xpc = "returned") =>
        LET ls  == SplitOn(new_match.snippet, "\n")
            src == SplitOn(groups[1], "\n")
        IN  /\ Len(src) = Len(ls)
            /\ \A i \in 1..Len(ls) :
                 \E p \in ShellPrompts : ls[i] = p \o src[i]
-----------------------------------------------------------------------------
(* Harvester: properties of from_string_get_items_using *)

\* the language is defined, allowed, and has a parser and a runner
Qualifies(language) ==
    /\ language # NoLanguage
    /\ language \in allowed_languages
    /\ language \in parser_by_language
    /\ language \in runner_by_language

IsBuilt(s) == s.fate = "built"
IsDropped(s) == s.fate = "dropped"

\* C17: the items collected are the matches whose language is defined,
\* allowed and has a parser and a runner, in the order they were found;
\* every other match is dropped with one call of _log_drop and never raises,
\* and the loop goes on after a drop: only a finder that raises on a match
\* that qualifies ends the loop before the last match.
C17_OnlyRunnableLanguagesCollected ==
    LET built   == SelectSeq(seen, IsBuilt)
        dropped == SelectSeq(seen, IsDropped)
    IN  /\ \A i \in 1..Len(items) : Qualifies(items[i].language)
        /\ Len(items) = Len(built)
        /\ \A i \in 1..Len(items) :
             /\ items[i].language = built[i].language
             /\ items[i].start_lineno = built[i].where.start_lineno
             /\ items[i].end_lineno = built[i].where.end_lineno
        /\ \A i \in 1..Len(seen) :
             /\ (seen[i].fate = "dropped") = ~Qualifies(seen[i].language)
             /\ seen[i].fate = "raised" => i = Len(seen) /\ cpc = "raised"
        /\ Len(drop_log) = Len(dropped)
        /\ \A i \in 1..Len(drop_log) :
             /\ drop_log[i].where = dropped[i].where
             /\ drop_log[i].reason # "none"
        /\ cpc = "raised" => seen # <<>> /\ seen[Len(seen)].fate = "raised"

\* a match was dropped and the match after it was collected
C17_Witness ==
    /\ cpc = "returned"
    /\ Len(seen) = 2
    /\ seen[1].fate = "dropped"
    /\ seen[1].language # NoLanguage
    /\ seen[2].fate = "built"
    /\ Len(items) = 1
-----------------------------------------------------------------------------
(* Exceptions: properties *)

\* the block of enhance_exceptions the exception was raised in
Innermost == born_in[Len(born_in)]

\* the `where` an exception ends up with once a block has handled it
KeptWhere ==
    IF born.where = NoWhereMsg
    THEN BuildWhereMsg(Innermost.where, Innermost.owner)
    ELSE born.where

\* a block of enhance_exceptions handles the exception
ScopeHandles ==
    /\ epc = "raising"
    /\ Len(scopes') < Len(scopes)

\* C22: enhance_exceptions raises again the exception object it caught, with
\* a `where` built from its own arguments only if the object had none; of
\* nested blocks the innermost one decides the `where` that is kept
C22_EnhanceKeepsObjectAndInnermostWhere ==
    /\ [][ScopeHandles =>
            /\ epc' = "raising"
            /\ flying'.id = flying.id
            /\ flying'.cls = flying.cls
            /\ flying.where # NoWhereMsg => flying'.where = flying.where
            /\ flying.where = NoWhereMsg =>
                 flying'.where = BuildWhereMsg(scopes[Len(scopes)].where,
                                               scopes[Len(scopes)].owner)]_vars
    /\ [](epc = "raising" /\ Len(scopes) < Len(born_in) =>
            /\ flying.id = born.id
            /\ flying.where = KeptWhere)
    /\ [](epc = "recovered" /\ born_in # <<>> => yielded["exc"].where = KeptWhere)

\* an exception without `where` went through two different blocks and kept
\* the location of the inner one
C22_Witness ==
    /\ epc = "recovered"
    /\ Len(born_in) = 2
    /\ born_in[1] # born_in[2]
    /\ born.where = NoWhereMsg
    /\ yielded["exc"].where = BuildWhereMsg(born_in[2].where, born_in[2].owner)

\* C23: no exception of the body leaves human_exceptions; after an exception
\* the dictionary holds it under 'exc', and without one the dictionary is
\* empty
C23_HumanExceptionsRecovers ==
    /\ epc # "propagated"
    /\ epc = "recovered" =>
         /\ DOMAIN yielded = {"exc"}
         /\ yielded["exc"].id = born.id
         /\ yielded["exc"].cls = born.cls
         /\ flying = NoFlying
    /\ epc = "returned" => DOMAIN yielded = {} /\ born = NoFlying
    /\ epc = "raising" => DOMAIN yielded = {} /\ flying.id = born.id

\* a SystemExit was caught and stored
C23_Witness ==
    /\ epc = "recovered"
    /\ born.cls = "SystemExit"
    /\ yielded["exc"].cls = "SystemExit"

\* a stack trace was printed
HasTrace == \E i \in 1..Len(printed) : printed[i].msg = "traceback.format_exc()"

\* C24: quiet prints nothing; otherwise verbosity >= 1 prints the stack
\* trace of the exception, a KeyboardInterrupt included, which is reported
\* without one when verbosity is 0; a SystemExit prints nothing
C24_ReportingPolicy ==
    epc = "recovered" =>
        /\ quiet => printed = <<>>
        /\ born.cls = "SystemExit" => printed = <<>>
        /\ ~quiet /\ verbosity >= 1 /\ born.cls # "SystemExit" => HasTrace
        /\ ~quiet /\ verbosity = 0 /\ born.cls = "KeyboardInterrupt" =>
             printed # <<>> /\ ~HasTrace

\* what human_exceptions prints: as above, but a KeyboardInterrupt is
\* reported with one fixed line and no stack trace at every verbosity
ReportingAsCoded ==
    epc = "recovered" =>
        /\ quiet => printed = <<>>
        /\ born.cls = "SystemExit" => printed = <<>>
        /\ ~quiet /\ verbosity >= 1
             /\ born.cls \notin {"SystemExit", "KeyboardInterrupt"} => HasTrace
        /\ ~quiet /\ born.cls = "KeyboardInterrupt" =>
             printed # <<>> /\ ~HasTrace
-----------------------------------------------------------------------------
(* Terminal emulation: properties *)

WhiteSpace == {" ", "\t", "\n", "\r"}

\* the tab stop after column col, with stops every 8 columns
NextStop(col) == ((col \div 8) + 1) * 8

\* the column after the first i characters of a line s
RECURSIVE ColumnAfter(_, _)
ColumnAfter(s, i) ==
    IF i = 0 THEN 0
    ELSE IF s[i] = "\t" THEN NextStop(ColumnAfter(s, i - 1))
    ELSE ColumnAfter(s, i - 1) + 1

\* the index of the last character of s that is not white space, or 0
LastInk(s) ==
    IF \E i \in 1..Len(s) : s[i] \notin WhiteSpace
    THEN CHOOSE i \in 1..Len(s) :
            /\ s[i] \notin WhiteSpace
            /\ \A j \in (i + 1)..Len(s) : s[j] \in WhiteSpace
    ELSE 0

\* text is the line s with its tabs expanded to tab stops and its trailing
\* white space removed
IsExpandedAndStripped(text, s) ==
    /\ Len(text) = ColumnAfter(s, LastInk(s))
    /\ \A i \in 1..LastInk(s) :
        IF s[i] = "\t"
        THEN \A k \in (ColumnAfter(s, i - 1) + 1)..ColumnAfter(s, i) :
                text[k] = " "
        ELSE text[ColumnAfter(s, i)] = s[i]

TabExpandedToStop ==
    /\ tpc = "shown"
    /\ terminal = "dumb"
    /\ fed = << <<"h", "\t", "i">> >>
    /\ Len(shown) = 9

\* C37: for term=dumb and term=as-is the text returned for the chunks
\* c1,...,cn is the text returned for the single chunk c1+...+cn: a line
\* break at the end of a chunk and white space at the end of a chunk that is
\* followed by more text are kept.
C37_ChunkingIndependent ==
    tpc = "shown" => shown = GetOutput(terminal, <<Concat(fed)>>)

-----------------------------------------------------------------------------
(* Shebang templates: properties *)

\* a word of the template that was quoted as a region of several words
IsMultiWord(w) == \E i \in 1..Len(w) : w[i] \in ShlexWhiteSpace

\* the words a template word without white space stands for: each '%e' is
\* the string tokens['e'], each '%a' the elements of the list tokens['a'],
\* every element but the first beginning a new word
RECURSIVE ValueWordsFrom(_, _, _, _, _)
ValueWordsFrom(s, toks, word, has, acc) ==
    IF s = <<>> THEN (IF has THEN Append(acc, word) ELSE acc)
    ELSE IF Head(s) # "%"
    THEN ValueWordsFrom(Tail(s), toks, Append(word, Head(s)), TRUE, acc)
    ELSE LET name == IdentPrefix(Tail(s))
             rest == SubSeq(s, Len(name) + 2, Len(s))
             l == toks.a
         IN  IF name = KeyE
             THEN ValueWordsFrom(rest, toks, word \o toks.e, TRUE, acc)
             ELSE IF name # KeyA THEN acc
             ELSE IF l = <<>>
             THEN ValueWordsFrom(rest, toks, word, has, acc)
             ELSE IF Len(l) = 1
             THEN ValueWordsFrom(rest, toks, word \o l[1], TRUE, acc)
             ELSE ValueWordsFrom(rest, toks, l[Len(l)], TRUE,
                                 Append(acc, word \o l[1])
                                 \o SubSeq(l, 2, Len(l) - 1))

\* the words of the command a template stands for: a region of several
\* words is one word, the region with every token in its quoted form, and
\* any other word is the word with the values of its tokens
RECURSIVE WordsMeant(_, _)
WordsMeant(ws, toks) ==
    IF ws = <<>> THEN <<>>
    ELSE (IF IsMultiWord(Head(ws))
          THEN <<Substitute(Head(ws), QuotedTokens(toks)).value>>
          ELSE ValueWordsFrom(Head(ws), toks, <<>>, Head(ws) = <<>>, <<>>))
         \o WordsMeant(Tail(ws), toks)

\* the words of the command that was returned are the words meant
WordsPreserved ==
    LET res == ShlexSplit(cmd)
    IN  /\ res.error = "none"
        /\ res.value = WordsMeant(ShlexSplit(shebang).value, tokens)

\* C29: the command quote_and_substitute returns, split by the rules of the
\* POSIX shell, is word for word the template with the values of the tokens:
\* a string token is one word, each element of a list token is a word, and
\* a quoted region of several words is one word
C29_ShebangWordsPreserved == spc = "returned" => WordsPreserved

\* a word of the template that the test of line 310 takes for a region of
\* several words, or that holds no white space and is not empty
TellsRegionsApart(w) ==
    \/ Len(ShlexSplit(w).value) > 1
    \/ w # <<>> /\ ~IsMultiWord(w)

\* the same for the templates whose quoted regions hold two words or more
ShebangWordsPreservedForPlainRegions ==
    spc = "returned"
    /\ (\A i \in 1..Len(ShlexSplit(shebang).value) :
            TellsRegionsApart(ShlexSplit(shebang).value[i]))
        => WordsPreserved

\* a region of two words with a token that needs quoting came out as one word
RegionRequoted ==
    /\ spc = "returned"
    /\ shebang = <<"'", "%", "e", " ", "x", "'">>
    /\ tokens.e = <<"v", " ", "w">>
    /\ ShlexSplit(cmd).value = << <<"'", "v", " ", "w", "'", " ", "x">> >>

\* the empty word of the template "x ''" is missing from the command
EmptyWordLost ==
    /\ spc = "returned"
    /\ shebang = <<"x", " ", "'", "'">>
    /\ ShlexSplit(cmd).value = << <<"x">> >>
-----------------------------------------------------------------------------
(* Zones and line numbers: properties *)

\* the line of the document, counted from 1, that holds offset p
LineOfOffset(p) == 1 + CountNewLines(Slice(document, 0, p))

\* the first and the last line of the text of the document from offset a to
\* offset b, a new line at its end not counted
LinesOfSpan(a, b) ==
    [start_lineno |-> LineOfOffset(a),
     end_lineno |-> LineOfOffset(IF b > a /\ document[b] = "\n"
                                 THEN b - 1 ELSE b)]

\* the where of every zone is the lines of its match in the document
ZonesAbsolute ==
    \A i \in 1..Len(zones) :
        zones[i].where = LinesOfSpan(zones[i].at.start, zones[i].at.end)

\* the where of example k of the zone that was searched is the lines of its
\* match in the document
ExampleAbsolute(k) ==
    LET zone == zones[zone_no]
    IN  examples[k].where = LinesOfSpan(zone.text_at + examples[k].at.start,
                                        zone.text_at + examples[k].at.end)

\* the text of the zone begins on the line its match begins on
TextOnFirstLine(zone) ==
    LineOfOffset(zone.text_at) = LineOfOffset(zone.at.start)

\* C30 as stated: the where of every zone and of every example found in a
\* zone holds the lines of the document on which the matched text begins
\* and ends
C30_LineNumbersAbsolute ==
    /\ zpc # "idle" => ZonesAbsolute
    /\ zpc = "examples" => \A k \in 1..Len(examples) : ExampleAbsolute(k)

\* C30, amended: the same, for the examples of the zones whose text begins
\* on the line on which the match of the zone delimiter begins
C30_LineNumbersAbsoluteInAlignedZones ==
    /\ zpc # "idle" => ZonesAbsolute
    /\ zpc = "examples" /\ TextOnFirstLine(zones[zone_no]) =>
         \A k \in 1..Len(examples) : ExampleAbsolute(k)

\* an example of two lines was found on lines 2 and 3 of the document, in a
\* zone that begins on line 2, and its match ends with a new line
C30_Witness ==
    /\ zpc = "examples"
    /\ TextOnFirstLine(zones[zone_no])
    /\ zones[zone_no].where.start_lineno = 2
    /\ Len(examples) = 1
    /\ examples[1].where = [start_lineno |-> 2, end_lineno |-> 3]
    /\ zones[zone_no].str[examples[1].at.end] = "\n"

\* the lines of `w` are in order and are lines of the zone
InZone(w, zone) ==
    /\ zone.where.start_lineno <= w.start_lineno
    /\ w.start_lineno <= w.end_lineno
    /\ w.end_lineno <= zone.where.end_lineno

\* C31: every example found in a zone has start_lineno <= end_lineno and
\* both are lines of the zone, when its `where` is created and also after
\* check_and_remove_indent has returned, whether it moved end_lineno or
\* not.  The examples that are built are among those for which
\* check_and_remove_indent returned.
C31_LinesOrderedAndInZone ==
    zpc = "examples" =>
        \A k \in 1..Len(examples) :
            /\ InZone(examples[k].where, zones[zone_no])
            /\ examples[k].err = "none" =>
                 /\ InZone(examples[k].built, zones[zone_no])
                 /\ examples[k].built.start_lineno
                      = examples[k].where.start_lineno
                 /\ examples[k].built.end_lineno
                      <= examples[k].where.end_lineno

\* an indented example of two lines lost its second line, which is not
\* indented, and is left with the first line of its zone
C31_Witness ==
    /\ zpc = "examples"
    /\ Len(examples) = 1
    /\ examples[1].err = "none"
    /\ examples[1].where.end_lineno = examples[1].where.start_lineno + 1
    /\ examples[1].built.end_lineno = examples[1].built.start_lineno
    /\ zones[zone_no].where.end_lineno > examples[1].built.end_lineno
-----------------------------------------------------------------------------
(* Expected-output compiler: properties *)

\* the offsets of the expected string where the lexer found a tag
TagOffsets ==
    IF tags_enabled
    THEN {i - 1 : i \in {j \in 1..Len(expected) : TagEnd(expected, j) # 0}}
    ELSE {}

\* the tag of the expected string that begins at offset c
TagAtOffset(c) == SubSeq(expected, c + 1, TagEnd(expected, c + 1))

\* the indexes, from 0, of the segments made from a tag: the ones between
\* the two anchors whose source text begins where a tag begins
TagSegments ==
    {i - 1 : i \in {j \in 2..(Len(compiled.charnos) - 1) :
                       compiled.charnos[j] \in TagOffsets}}

\* '<a<b>': a '<' that begins no tag, then the tag 'b'
LoneBracket == <<"<", "a", "<", "b", ">">>

HelloWorld == <<"h", "e", "l", "l", "o", " ", "w", "o", "r", "l", "d">>
HelloTwoSpacesWorld ==
    <<"h", "e", "l", "l", "o", " ", " ", "w", "o", "r", "l", "d">>

\* the expected string has no tag for the compiler
WithoutTags == TagOffsets = {}

\* C27: without white space normalization the regexs joined match the
\* expected string itself, with any number of new lines after it; when the
\* expected string has no tag they match nothing else; 'hello world' is
\* matched and 'hello  world' is not
C27_NotNormWSRoundTrip ==
    /\ mpc = "matched" /\ ~normalize_whitespace =>
         \A text \in got :
            /\ IsWithNewLines(expected, text) => text \in matched
            /\ WithoutTags =>
                 (text \in matched <=> IsWithNewLines(expected, text))
    /\ LET r == ExpectedAsRegexs(HelloWorld, TRUE, FALSE)
       IN  /\ RegexsMatch(r.segments, HelloWorld)
           /\ ~RegexsMatch(r.segments, HelloTwoSpacesWorld)

\* 'a<f-g>' compiled with tags matches 'a<f-g>' followed by a new line
C27_Witness ==
    /\ mpc = "matched"
    /\ tags_enabled /\ ~normalize_whitespace
    /\ expected = <<"a", "<", "f", "-", "g", ">">>
    /\ Append(expected, "\n") \in matched

\* a text without tags is refused when a space is put in
NotNormWSRefuses ==
    /\ mpc = "matched"
    /\ ~normalize_whitespace /\ WithoutTags
    /\ expected = <<"a", " ", "a">>
    /\ <<"a", " ", " ", "a">> \in got \ matched

\* s with one space in the place of each run of white space
RECURSIVE Collapse(_)
Collapse(s) ==
    IF s = <<>> THEN <<>>
    ELSE IF Head(s) \in ReSpace
         THEN IF Len(s) > 1 /\ s[2] \in ReSpace THEN Collapse(Tail(s))
              ELSE <<" ">> \o Collapse(Tail(s))
         ELSE <<Head(s)>> \o Collapse(Tail(s))

\* text is s with a run of white space that is not empty in the place of
\* each run of white space
IsSpaceVariant(s, text) == Collapse(text) = Collapse(s)

\* the named tags of tags_by_idx
NamedTagSegments ==
    {i \in DOMAIN compiled.tags_by_idx : compiled.tags_by_idx[i] # None}

ExDoctest ==
    <<"e", "x", " ", "<", ".", ".", ".", ">", "\n", "u", "<", ".", ".", ".",
      ">">>
ExDoctestOutput ==
    <<"e", "x", " ", " ", "x", "\n", " ", " ", "u", " ", " ", "\n">>

====
